---- MODULE Spec2Model ----
(***************************************************************************)
(* State-machine model of grid_bot_strategy (src/Grid_multipera_opt.py),   *)
(* the grid-trading backtest engine: one call of the function, replayed    *)
(* bar by bar.                                                             *)
(*                                                                         *)
(* Numbers.  Prices, grid levels, capital and leverage are integers here   *)
(* (the configurations drawn in Init all have an integral grid spacing).   *)
(* Every amount the code computes from them is an exact decimal, held as a *)
(* little-endian sequence of base-10^4 limbs (TLC's integers are 32 bits   *)
(* wide and 1000 dollars already is 10^11 units of 10^-8):                 *)
(*   - quantities, PnL, working capital, mark-to-market: units of 10^-8    *)
(*     (the precision of round(quantity, 8));                              *)
(*   - transaction costs and total_mtm: units of 10^-12 / grid_levels,     *)
(*     in which 0.0002 * price * (working_capital / (price * grid_levels)) *)
(*     is an integer;                                                      *)
(*   - the ledger's round(x, 3) columns: plain integers, units of 10^-3.   *)
(* Arithmetic is exact (real) arithmetic with Python's round-half-even at  *)
(* each round() call; binary floating-point error is not modelled.         *)
(***************************************************************************)
EXTENDS Integers, Sequences, FiniteSets, TLC

\* ------------------------------------------------------------------------
\* Bounds of the model
\* ------------------------------------------------------------------------

\* Largest number of rows in the input DataFrame.
MaxBars == 3

\* ------------------------------------------------------------------------
\* Exact decimal arithmetic on limb sequences
\* ------------------------------------------------------------------------

Base == 10 ^ 4

Zero == <<0, 0, 0, 0, 0, 0>>

LimbIx == DOMAIN Zero

Top == Len(Zero)

\* F(e), with e evaluated once (TLC otherwise re-evaluates an operator's
\* argument at every use of the parameter).
Bind(e, F(_)) == CHOOSE r \in {F(v) : v \in {e}} : TRUE

\* The limbs i..Top of the raw limb values f, normalised, with `carry`
\* flowing into limb i: limbs below Top lie in 0..Base-1 and the top limb
\* carries the sign.
RECURSIVE NormFrom(_, _, _)
NormFrom(f, i, carry) ==
    Bind(f[i] + carry,
         LAMBDA s : IF i = Top THEN <<s>>
                    ELSE <<s % Base>> \o NormFrom(f, i + 1, s \div Base))

DInt(n) == Bind(n, LAMBDA v : NormFrom([i \in LimbIx |-> IF i = 1 THEN v ELSE 0], 1, 0))

DAdd(a, b) ==
    Bind(<<a, b>>, LAMBDA t : NormFrom([i \in LimbIx |-> t[1][i] + t[2][i]], 1, 0))

DSub(a, b) ==
    Bind(<<a, b>>, LAMBDA t : NormFrom([i \in LimbIx |-> t[1][i] - t[2][i]], 1, 0))

\* a * Base
DShiftUp(a) ==
    Bind(a, LAMBDA v : [i \in LimbIx |->
                           IF i = 1 THEN 0
                           ELSE IF i = Top THEN v[i - 1] + Base * v[i]
                           ELSE v[i - 1]])

\* n * a for an integer n: limb by limb when |n| < Base, and as
\* (n div Base) * a * Base + (n mod Base) * a otherwise.
RECURSIVE DMul(_, _)
DMul(n, a) ==
    Bind(<<n, a>>,
         LAMBDA t : IF -Base < t[1] /\ t[1] < Base
                    THEN NormFrom([i \in LimbIx |-> t[1] * t[2][i]], 1, 0)
                    ELSE DAdd(DShiftUp(DMul(t[1] \div Base, t[2])),
                              DMul(t[1] % Base, t[2])))

DNeg(a) == a[Top] < 0

DLess(a, b) == DNeg(DSub(a, b))

DLeq(a, b) == ~DLess(b, a)

\* The integer a limb sequence stands for (it must fit in 32 bits).
RECURSIVE DHorner(_, _)
DHorner(a, i) ==
    IF i = Top THEN a[Top] ELSE DHorner(a, i + 1) * Base + a[i]

DToInt(a) == Bind(a, LAMBDA v : DHorner(v, 1))

\* One decimal digit d brought down onto the remainder st.r of a long
\* division by n (10 * n must fit in 32 bits).
DigitStep(st, d, n) ==
    Bind(<<st, st.r * 10 + d>>,
         LAMBDA t : [q |-> t[1].q * 10 + t[2] \div n, r |-> t[2] % n])

\* (rem * Base + limb) divided by n, for 0 <= rem < n and a limb in
\* 0..Base-1: at once when rem * Base fits in 32 bits, digit by digit
\* otherwise.
LimbDivMod(rem, limb, n) ==
    IF n <= 200000
    THEN [q |-> (rem * Base + limb) \div n, r |-> (rem * Base + limb) % n]
    ELSE DigitStep(DigitStep(DigitStep(DigitStep([q |-> 0, r |-> rem],
                                                 limb \div 1000, n),
                                       (limb \div 100) % 10, n),
                             (limb \div 10) % 10, n),
                   limb % 10, n)

\* Long division of the limbs i..1 of a by a positive n, `rem` being the
\* remainder left by the limbs above i: q is floor(a / n), r is a - n * q,
\* in 0..n-1.
RECURSIVE DivFrom(_, _, _, _)
DivFrom(a, n, i, rem) ==
    Bind(IF i = Top THEN [q |-> a[i] \div n, r |-> a[i] % n]
                    ELSE LimbDivMod(rem, a[i], n),
         LAMBDA s : IF i = 1 THEN [q |-> <<s.q>>, r |-> s.r]
                    ELSE Bind(DivFrom(a, n, i - 1, s.r),
                              LAMBDA d : [q |-> Append(d.q, s.q), r |-> d.r]))

DivMod(a, n) == Bind(<<a, n>>, LAMBDA t : DivFrom(t[1], t[2], Top, 0))

\* floor(a / n)
DDivFloor(a, n) == DivMod(a, n).q

\* a - n * floor(a / n)
DMod(a, n) == DivMod(a, n).r

\* Python's round(): to the nearest integer, ties to the even one.
\* q = floor(x), and x - q is compared with 1/2 by its flags.
RoundHalfEven(q, aboveHalf, exactlyHalf) ==
    Bind(q, LAMBDA v : IF aboveHalf \/ (exactlyHalf /\ v[1] % 2 = 1)
                       THEN DAdd(v, DInt(1)) ELSE v)

\* round(a / n)
DDivRound(a, n) ==
    Bind(<<DivMod(a, n), n>>,
         LAMBDA t : RoundHalfEven(t[1].q, 2 * t[1].r > t[2], 2 * t[1].r = t[2]))

\* floor(a / Base)
DShiftDown(a) ==
    Bind(a, LAMBDA v : [i \in LimbIx |->
                           IF i = Top THEN v[Top] \div Base
                           ELSE IF i = Top - 1 THEN v[Top] % Base
                           ELSE v[i + 1]])

\* a * 10^k
RECURSIVE DTimesPow10(_, _)
DTimesPow10(a, k) ==
    IF k = 0 THEN a
    ELSE IF k >= 4 THEN DTimesPow10(DShiftUp(a), k - 4)
    ELSE DTimesPow10(DMul(10, a), k - 1)

\* floor(a / 10^k)
RECURSIVE DDropDigits(_, _)
DDropDigits(a, k) ==
    IF k = 0 THEN a
    ELSE IF k >= 4 THEN DDropDigits(DShiftDown(a), k - 4)
    ELSE DDropDigits(DDivFloor(a, 10), k - 1)

\* ------------------------------------------------------------------------
\* Inputs of one call
\* ------------------------------------------------------------------------

\* 0.0002 = FeeNumerator / 10^FeeDecimals, the transaction-cost rate.
FeeNumerator == 2

FeeDecimals == 4

\* round(quantity, 8): quantities are kept in units of 10^-QuantityDecimals.
QuantityDecimals == 8

\* round(pnl_current, 3), round(transaction_cost, 3).
LedgerDecimals == 3

\* Close prices of the bars.
Prices == {80, 90, 100, 110, 120}

RECURSIVE SeqsUpTo(_, _)
SeqsUpTo(S, n) ==
    IF n = 0 THEN {<<>>}
    ELSE LET shorter == SeqsUpTo(S, n - 1)
         IN  shorter \cup
             {Append(s, x) : s \in {t \in shorter : Len(t) = n - 1}, x \in S}

\* The frame of the bars with the closes ps: the i-th bar has 'Open time' i.
Stamped(ps) == [i \in 1..Len(ps) |-> [time |-> i, close |-> ps[i]]]

Reversed(d) == [i \in 1..Len(d) |-> d[Len(d) + 1 - i]]

\* The frames passed in: up to MaxBars bars, oldest first or newest first.
Frames ==
    LET chronological == {Stamped(ps) : ps \in SeqsUpTo(Prices, MaxBars)}
    IN  chronological \cup {Reversed(d) : d \in chronological}

\* The grids (lower_limit, upper_limit, grid_levels), each with an integral
\* spacing.
Grids == {<<80, 120, 2>>, <<90, 110, 2>>, <<90, 110, 4>>, <<85, 115, 3>>}

\* The parameters of a call: initial_price 100, capital 1000 and leverage 1
\* throughout, and a date window that holds every bar.  The stop-loss prices
\* lie between two bar prices, so that a triggering close always differs
\* from the threshold it crossed.
Config(g, sl) ==
    [start_date |-> 1, end_date |-> MaxBars,
     initial_price |-> 100,
     lower_limit |-> g[1], upper_limit |-> g[2], grid_levels |-> g[3],
     initial_capital |-> 1000, leverage |-> 1,
     lower_stop_loss |-> 85, upper_stop_loss |-> 115,
     stop_loss_enabled |-> sl,
     progress_callback |-> FALSE]

Configs == {Config(g, sl) : g \in Grids, sl \in BOOLEAN}

\* ------------------------------------------------------------------------
\* State of one call of grid_bot_strategy
\* ------------------------------------------------------------------------

VARIABLES
    pc,                      \* "call", "loop", "after_loop", "done"
    cfg,                     \* the parameters of the call
    df,                      \* the bars: as passed in, then filtered and sorted
    grid_range, buy_levels, sell_levels,
    iteration,               \* bars consumed by the for loop
    trade_log,
    total_pnl, total_cost, working_capital,
    open_positions,
    stop_loss_triggered, stop_loss_trigger_date, stop_loss_trigger_price,
    result,                  \* the returned tuple, once pc = "done"
    handler,                 \* who calls: "grid_bot_strategy" for a direct call,
                             \* "twice", "run_strategy", "optimize_strategy"
    hpc,                     \* where the caller is
    entries,                 \* the entry fields of the window
    market,                  \* the bars the exchange holds
    self_df,                 \* self.df
    fetch,                   \* the locals of fetch_data
    frame,                   \* the DataFrame passed as df
    progress,                \* the value last passed to update_progress
    combination,             \* where the five for loops of the sweep stand
    current_iteration, best_pnl, best_params, best_trade_log_df,
    previous,                \* what the earlier call returned
    shown,                   \* what the window was last given to show
    status,                  \* the text last passed to update_status
    threads,                 \* the worker threads the clicks have started
    trade_log_df_default,    \* self.trade_log_df_default
    default_results,         \* self.default_results
    after,                   \* the callbacks root.after has queued
    summary,                 \* the labels of the default summary
    tree                     \* the rows of trade_log_tree_default

\* What the worker threads of Run Strategy share and what each one holds.
thread_vars == <<threads, trade_log_df_default, default_results, after, summary, tree>>

\* What no step of grid_bot_strategy touches.
\* The caller's state but for the frame it passes.
window_vars == <<handler, hpc, entries, market, self_df, fetch,
                 combination, current_iteration, best_pnl, best_params, best_trade_log_df,
                 previous, shown, status, thread_vars>>

caller_vars == <<window_vars, frame>>

vars == <<pc, cfg, df, grid_range, buy_levels, sell_levels, iteration, trade_log,
          total_pnl, total_cost, working_capital, open_positions,
          stop_loss_triggered, stop_loss_trigger_date, stop_loss_trigger_price,
          result, progress, caller_vars>>

None == "None"

\* ------------------------------------------------------------------------
\* Lines 47-67: date filter, sort, grid, initial values
\* ------------------------------------------------------------------------

\* The texts an 'Open time' column may hold instead of datetimes: the i-th
\* one reads as the time i.
DateTexts == <<"2024-01-01", "2024-01-02", "2024-01-03", "2024-01-04", "2024-01-05">>

\* pd.to_datetime(df['Open time'])  (line 47): a text is parsed, a datetime
\* is kept.  A row whose 'Open time' is a text carries the dtype "object".
ToDatetime(d) ==
    [i \in DOMAIN d |->
        IF "dtype" \in DOMAIN d[i]
        THEN [time |-> CHOOSE t \in DOMAIN DateTexts : DateTexts[t] = d[i].time,
              close |-> d[i].close]
        ELSE d[i]]

\* df[(df['Open time'] >= start_date) & (df['Open time'] <= end_date)]
FilterDates(d, start_date, end_date) ==
    SelectSeq(d, LAMBDA r : r.time >= start_date /\ r.time <= end_date)

\* Mutation: the row is put last, wherever its time belongs.
InsertLast(s, r) == Append(s, r)

\* Insert row r after the last row of the sorted s whose time is <= r.time.
RECURSIVE InsertByTime(_, _)
InsertByTime(s, r) ==
    IF s = <<>> THEN <<r>>
    ELSE IF s[Len(s)].time <= r.time THEN Append(s, r)
    ELSE Append(InsertByTime(SubSeq(s, 1, Len(s) - 1), r), s[Len(s)])

RECURSIVE SortPrefix(_, _)
SortPrefix(d, n) ==
    IF n = 0 THEN <<>> ELSE InsertByTime(SortPrefix(d, n - 1), d[n])

\* Mutation: the frame is used in the order it was passed in.
SortByTimeSkipped(d) == d

\* df.sort_values(by='Open time'): rows of equal time keep their order
\* (what the sort does on frames this short).
SortByTime(d) == SortPrefix(d, Len(d))

\* grid_range = (upper_limit - lower_limit) / grid_levels
GridRange(lower_limit, upper_limit, grid_levels) ==
    (upper_limit - lower_limit) \div grid_levels

\* Mutation: the levels are counted from 0, as range(grid_levels) would.
BuyLevelsFromInitial(initial_price, range, grid_levels) ==
    [i \in 1..grid_levels |-> initial_price - (i - 1) * range]

\* [initial_price - i * grid_range for i in range(1, grid_levels + 1)]
BuyLevels(initial_price, range, grid_levels) ==
    [i \in 1..grid_levels |-> initial_price - i * range]

\* [initial_price + i * grid_range for i in range(1, grid_levels + 1)]
SellLevels(initial_price, range, grid_levels) ==
    [i \in 1..grid_levels |-> initial_price + i * range]

\* An integer number of currency units, in units of 10^-QuantityDecimals.
Money(n) == DTimesPow10(DInt(n), QuantityDecimals)

\* working_capital = initial_capital * leverage
InitialWorkingCapital(initial_capital, leverage) ==
    Money(initial_capital * leverage)

\* A progress value num / den, in percent.
Percent(num, den) == [num |-> num, den |-> den]

\* The locals of grid_bot_strategy before the call.
NotCalled ==
    /\ grid_range = 0
    /\ buy_levels = <<>>
    /\ sell_levels = <<>>
    /\ iteration = 0
    /\ trade_log = <<>>
    /\ total_pnl = Zero
    /\ total_cost = Zero
    /\ working_capital = Zero
    /\ open_positions = <<>>
    /\ stop_loss_triggered = FALSE
    /\ stop_loss_trigger_date = None
    /\ stop_loss_trigger_price = None
    /\ result = None

\* No window: grid_bot_strategy is called by `who` with the frame df.
NoWindow(who) ==
    /\ handler = who
    /\ hpc = "engine"
    /\ entries = None
    /\ market = <<>>
    /\ self_df = None
    /\ fetch = None
    /\ frame = df
    /\ progress = None
    /\ combination = None
    /\ current_iteration = 0
    /\ best_pnl = None
    /\ best_params = None
    /\ best_trade_log_df = None
    /\ previous = None
    /\ shown = <<>>
    /\ status = None
    /\ threads = <<>>
    /\ trade_log_df_default = None
    /\ default_results = None
    /\ after = <<>>
    /\ summary = None
    /\ tree = <<>>

Init ==
    /\ pc = "call"
    /\ cfg \in Configs
    /\ df \in Frames
    /\ NotCalled
    /\ NoWindow("grid_bot_strategy")

\* Mutation: the list outlives the call (a mutable default, a module-level
\* list) and the next call appends to it.
TradeLogLeftOver(earlier) == earlier

\* trade_log = []  (line 55): a new list, whatever an earlier call left.
EmptyTradeLog(earlier) == <<>>

\* Lines 47-67.  Line 47 assigns the converted column to the frame that was
\* passed in; the division of line 51 needs grid_levels # 0.
Setup ==
    /\ pc = "call"
    /\ cfg.grid_levels # 0
    /\ pc' = "loop"
    /\ frame' = ToDatetime(frame)
    /\ df' = SortByTime(FilterDates(ToDatetime(df), cfg.start_date, cfg.end_date))
    /\ grid_range' = GridRange(cfg.lower_limit, cfg.upper_limit, cfg.grid_levels)
    /\ buy_levels' = BuyLevels(cfg.initial_price, grid_range', cfg.grid_levels)
    /\ sell_levels' = SellLevels(cfg.initial_price, grid_range', cfg.grid_levels)
    /\ trade_log' = EmptyTradeLog(trade_log)
    /\ total_pnl' = Zero
    /\ total_cost' = Zero
    /\ working_capital' = InitialWorkingCapital(cfg.initial_capital, cfg.leverage)
    /\ open_positions' = <<>>
    /\ stop_loss_triggered' = FALSE
    /\ stop_loss_trigger_date' = None
    /\ stop_loss_trigger_price' = None
    /\ iteration' = 0
    /\ UNCHANGED <<cfg, result, progress, window_vars>>

\* grid_range = (upper_limit - lower_limit) / grid_levels with grid_levels = 0
\* (line 51): ZeroDivisionError, before any level is made or bar read.
SetupRaises ==
    /\ pc = "call"
    /\ cfg.grid_levels = 0
    /\ pc' = "raised"
    /\ frame' = ToDatetime(frame)
    /\ df' = SortByTime(FilterDates(ToDatetime(df), cfg.start_date, cfg.end_date))
    /\ UNCHANGED <<cfg, grid_range, buy_levels, sell_levels, iteration, trade_log,
                   total_pnl, total_cost, working_capital, open_positions,
                   stop_loss_triggered, stop_loss_trigger_date,
                   stop_loss_trigger_price, result, progress, window_vars>>

\* ------------------------------------------------------------------------
\* Amounts
\* ------------------------------------------------------------------------

\* Mutation: two decimals are kept instead of three.
RoundAmountToCents(a) ==
    10 * DToInt(DDivRound(DDivFloor(a, 10 ^ 2),
                          10 ^ (QuantityDecimals - LedgerDecimals - 1)))

\* round(x, 3) of an amount in units of 10^-8, in units of 10^-3.
RoundAmount(a) ==
    DToInt(DDivRound(a, 10 ^ (QuantityDecimals - LedgerDecimals)))

\* round(transaction_cost, 3), in units of 10^-3.  A cost is held in units
\* of 10^-12 / grid_levels, so this is round(cost / (10^9 * grid_levels)):
\* all but one of the nine digits are dropped first (sticky records whether
\* any of them was non-zero) and the rest, c, is divided by
\* n = 10 * grid_levels.
RoundCostFrom(cost, c, k, n) ==
    Bind(<<DivMod(c, n), DTimesPow10(c, k) # cost>>,
         LAMBDA t : DToInt(RoundHalfEven(t[1].q,
                               2 * t[1].r > n \/ (2 * t[1].r = n /\ t[2]),
                               2 * t[1].r = n /\ ~t[2])))

RoundCost(cost, grid_levels) ==
    Bind(<<cost, QuantityDecimals + FeeDecimals - LedgerDecimals - 1, 10 * grid_levels>>,
         LAMBDA t : Bind(DDropDigits(t[1], t[2]),
                         LAMBDA c : RoundCostFrom(t[1], c, t[2], t[3])))

\* An amount in units of 10^-8, in the units of a cost.
InCostUnits(a, grid_levels) == DMul(grid_levels, DTimesPow10(a, FeeDecimals))

\* pnl_current of closing pos at the price `at`:
\* (at - pos['price']) * pos['quantity'] for a long,
\* (pos['price'] - at) * pos['quantity'] for a short.
ClosePnl(pos, at) ==
    IF pos.type = "Buy" THEN DMul(at - pos.price, pos.quantity)
                        ELSE DMul(pos.price - at, pos.quantity)

\* transaction_cost = 0.0002 * at * pos['quantity'], in cost units.
CloseCost(pos, at, grid_levels) ==
    DMul(FeeNumerator * at * grid_levels, pos.quantity)

\* round(quantity, 8) for quantity = working_capital / (price * grid_levels)
OpenQuantity(capital, price, grid_levels) ==
    DDivRound(capital, price * grid_levels)

\* transaction_cost = 0.0002 * price * quantity for the unrounded
\* quantity = working_capital / (price * grid_levels): the price cancels,
\* leaving 0.0002 * working_capital / grid_levels, in cost units.
OpenCost(capital, price, grid_levels) == DMul(FeeNumerator, capital)

\* Mutation: realized PnL is not added to the working capital.
CapitalAfterCloseFixed(capital, pnl_current) == capital

\* working_capital += pnl_current  (lines 90, 98, 116, 124, 137, 147)
CapitalAfterClose(capital, pnl_current) == DAdd(capital, pnl_current)

\* One row of trade_log, columns as named at lines 198-199.
LogRow(date, price, bs, entry_level, target_level, pnl_current, quantity, cost) ==
    [Date |-> date, Price |-> price, BS |-> bs,
     Entry_Level |-> entry_level, Target_Level |-> target_level,
     PNL_Current |-> pnl_current, Quantity |-> quantity,
     Transaction_Cost |-> cost]

\* ------------------------------------------------------------------------
\* Lines 77-128: stop-loss
\* ------------------------------------------------------------------------

\* Mutation: positions are closed at the threshold that was crossed.
StopLossTriggerPriceThreshold(price, threshold) == threshold

\* stop_loss_trigger_price = price (lines 81, 107): the bar's close, not
\* the threshold that was crossed.
StopLossTriggerPrice(price, threshold) == price

\* Mutation: a position closed by the stop-loss is written as an ordinary
\* closing.
StopLossRowUnmarked(pos, date, slp, grid_levels) ==
    IF pos.type = "Buy"
    THEN LogRow(date, slp, "Sell (Closing)", pos.price, slp,
                RoundAmount(ClosePnl(pos, slp)), pos.quantity,
                RoundCost(CloseCost(pos, slp, grid_levels), grid_levels))
    ELSE LogRow(date, slp, "Buy (Closing)", slp, pos.price,
                RoundAmount(ClosePnl(pos, slp)), pos.quantity,
                RoundCost(CloseCost(pos, slp, grid_levels), grid_levels))

\* The ledger row of a position closed by the stop-loss.
StopLossRow(pos, date, slp, grid_levels) ==
    IF pos.type = "Buy"
    THEN LogRow(date, slp, "Sell (SL Closing)", pos.price, slp,
                RoundAmount(ClosePnl(pos, slp)), pos.quantity,
                RoundCost(CloseCost(pos, slp, grid_levels), grid_levels))
    ELSE LogRow(date, slp, "Buy (SL Closing)", slp, pos.price,
                RoundAmount(ClosePnl(pos, slp)), pos.quantity,
                RoundCost(CloseCost(pos, slp, grid_levels), grid_levels))

\* for pos in open_positions: ... (lines 84-100, 110-126), from position i on.
\* acc holds trade_log, total_pnl, total_cost, working_capital.
RECURSIVE StopLossCloseFrom(_, _, _, _, _, _)
StopLossCloseFrom(positions, i, date, slp, grid_levels, acc) ==
    IF i > Len(positions) THEN acc
    ELSE LET pos == positions[i]
             pnl_current == ClosePnl(pos, slp)
             transaction_cost == CloseCost(pos, slp, grid_levels)
         IN  Bind([trade_log |-> Append(acc.trade_log,
                                        StopLossRow(pos, date, slp, grid_levels)),
                   total_pnl |-> DAdd(acc.total_pnl, pnl_current),
                   total_cost |-> DAdd(acc.total_cost, transaction_cost),
                   working_capital |-> CapitalAfterClose(acc.working_capital, pnl_current)],
                  LAMBDA next :
                      StopLossCloseFrom(positions, i + 1, date, slp, grid_levels, next))

\* Mutation: the open positions are not cleared.
PositionsAfterStopLossKept(positions) == positions

\* open_positions = []  (lines 101, 127)
PositionsAfterStopLoss(positions) == <<>>

\* Mutation: the break is missing and the loop goes on to the next bar.
PcAfterStopLossNoBreak == "loop"

\* break  (lines 102, 128): the for loop is left.
PcAfterStopLoss == "after_loop"

\* The bar the for loop reads next.
NextRow == df[iteration + 1]

\* if progress_callback: progress_callback(iteration / total_iterations * 100)
\* (lines 70-72), iteration being the number of the bar just read.
ProgressCallback ==
    progress' = IF cfg.progress_callback
                THEN Percent(100 * (iteration + 1), Len(df))
                ELSE progress

StopLoss(threshold) ==
    \E slp \in {StopLossTriggerPrice(NextRow.close, threshold)} :
    \E acc \in {StopLossCloseFrom(open_positions, 1, NextRow.time, slp,
                    cfg.grid_levels,
                    [trade_log |-> trade_log, total_pnl |-> total_pnl,
                     total_cost |-> total_cost,
                     working_capital |-> working_capital])} :
        /\ iteration' = iteration + 1
        /\ stop_loss_triggered' = TRUE
        /\ stop_loss_trigger_date' = NextRow.time
        /\ stop_loss_trigger_price' = slp
        /\ trade_log' = acc.trade_log
        /\ total_pnl' = acc.total_pnl
        /\ total_cost' = acc.total_cost
        /\ working_capital' = acc.working_capital
        /\ open_positions' = PositionsAfterStopLoss(open_positions)
        /\ pc' = PcAfterStopLoss
        /\ ProgressCallback
        /\ UNCHANGED <<cfg, df, grid_range, buy_levels, sell_levels, result,
                       caller_vars>>

\* Mutation: the stop-loss prices are watched whatever stop_loss_enabled.
ArmedAlways(stop_loss_enabled) == TRUE

\* if stop_loss_enabled:  (line 77)
Armed(stop_loss_enabled) == stop_loss_enabled

\* if price >= upper_stop_loss  (lines 78-102)
UpperStopLoss ==
    /\ pc = "loop"
    /\ iteration < Len(df)
    /\ Armed(cfg.stop_loss_enabled)
    /\ NextRow.close >= cfg.upper_stop_loss
    /\ StopLoss(cfg.upper_stop_loss)

\* if price <= lower_stop_loss  (lines 104-128)
LowerStopLoss ==
    /\ pc = "loop"
    /\ iteration < Len(df)
    /\ Armed(cfg.stop_loss_enabled)
    /\ ~(NextRow.close >= cfg.upper_stop_loss)
    /\ NextRow.close <= cfg.lower_stop_loss
    /\ StopLoss(cfg.lower_stop_loss)

\* ------------------------------------------------------------------------
\* Lines 130-150: manage existing positions
\* ------------------------------------------------------------------------

\* Mutation: the closed position stays in the list.
RemoveNothing(s, x) == s

\* list.remove(x): the list without its first element equal to x.
RECURSIVE RemoveFirst(_, _)
RemoveFirst(s, x) ==
    IF s = <<>> THEN s
    ELSE IF Head(s) = x THEN Tail(s)
    ELSE <<Head(s)>> \o RemoveFirst(Tail(s), x)

\* Mutation: the loop walks the list it removes from.
ListWalkedLive(copy, live) == live

\* for pos in open_positions[:]: the loop walks a copy taken before the
\* first removal, not the list it removes from.
ListWalked(copy, live) == copy

\* Mutation: a close exactly at the target does not reach it.
TargetReachedStrict(pos, price) ==
    \/ pos.type = "Buy" /\ price > pos.target_sell_level
    \/ pos.type = "Sell" /\ price < pos.target_buy_level

\* pos['type'] == 'Buy' and price >= pos['target_sell_level'], or
\* pos['type'] == 'Sell' and price <= pos['target_buy_level']
TargetReached(pos, price) ==
    \/ pos.type = "Buy" /\ price >= pos.target_sell_level
    \/ pos.type = "Sell" /\ price <= pos.target_buy_level

\* The ledger row of a position closed at its target (lines 138, 148).
ClosingRow(pos, date, price, grid_levels) ==
    IF pos.type = "Buy"
    THEN LogRow(date, price, "Sell (Closing)", pos.price, pos.target_sell_level,
                RoundAmount(ClosePnl(pos, price)), pos.quantity,
                RoundCost(CloseCost(pos, price, grid_levels), grid_levels))
    ELSE LogRow(date, price, "Buy (Closing)", pos.target_buy_level, pos.price,
                RoundAmount(ClosePnl(pos, price)), pos.quantity,
                RoundCost(CloseCost(pos, price, grid_levels), grid_levels))

\* The loop of lines 131-150 from its i-th step on.  acc holds
\* open_positions, trade_log, total_pnl, total_cost, working_capital.
RECURSIVE ManagePositionsFrom(_, _, _, _, _, _)
ManagePositionsFrom(copy, i, date, price, grid_levels, acc) ==
    LET walked == ListWalked(copy, acc.open_positions)
    IN  IF i > Len(walked) THEN acc
        ELSE LET pos == walked[i]
                 pnl_current == ClosePnl(pos, price)
                 transaction_cost == CloseCost(pos, price, grid_levels)
             IN  IF TargetReached(pos, price)
                 THEN Bind([open_positions |-> RemoveFirst(acc.open_positions, pos),
                            trade_log |-> Append(acc.trade_log,
                                             ClosingRow(pos, date, price, grid_levels)),
                            total_pnl |-> DAdd(acc.total_pnl, pnl_current),
                            total_cost |-> DAdd(acc.total_cost, transaction_cost),
                            working_capital |-> CapitalAfterClose(acc.working_capital, pnl_current)],
                           LAMBDA next :
                               ManagePositionsFrom(copy, i + 1, date, price,
                                                   grid_levels, next))
                 ELSE ManagePositionsFrom(copy, i + 1, date, price, grid_levels, acc)

ManagePositions(date, price, grid_levels, acc) ==
    Bind(acc, LAMBDA start :
        ManagePositionsFrom(start.open_positions, 1, date, price, grid_levels, start))

\* ------------------------------------------------------------------------
\* Lines 152-178: open positions at the grid levels the price has reached
\* ------------------------------------------------------------------------

\* Mutation: a close exactly at a level does not reach it.
EligibleBuyLevelsStrict(levels, price) ==
    SelectSeq(levels, LAMBDA level : price < level)

\* [level for level in buy_levels if price <= level]
EligibleBuyLevels(levels, price) == SelectSeq(levels, LAMBDA level : price <= level)

\* Mutation: price > level instead of price >= level.
EligibleSellLevelsStrict(levels, price) ==
    SelectSeq(levels, LAMBDA level : price > level)

\* Mutation: only the first level the price has reached is taken.
EligibleSellLevelsNearest(levels, price) ==
    Bind(SelectSeq(levels, LAMBDA level : price >= level),
         LAMBDA reached : IF reached = <<>> THEN reached ELSE <<reached[1]>>)

\* [level for level in sell_levels if price >= level]
EligibleSellLevels(levels, price) == SelectSeq(levels, LAMBDA level : price >= level)

\* Mutation: the occupancy test is missing.
OccupiedNever(level, positions) == FALSE

\* Mutation: a level counts as occupied as soon as any position is open.
OccupiedByAny(level, positions) == positions # <<>>

\* any(p['price'] == level for p in open_positions)
Occupied(level, positions) == \E j \in 1..Len(positions) : positions[j].price = level

\* The position and the ledger row of an opening at `level` (lines 159-166
\* for a long, 171-178 for a short).
NewPosition(type, level, range, quantity) ==
    IF type = "Buy"
    THEN [type |-> "Buy", price |-> level, target_sell_level |-> level + range,
          quantity |-> quantity]
    ELSE [type |-> "Sell", price |-> level, target_buy_level |-> level - range,
          quantity |-> quantity]

OpeningRow(type, level, range, date, price, quantity, cost) ==
    IF type = "Buy"
    THEN LogRow(date, price, "Buy (Opening)", level, level + range, 0, quantity, cost)
    ELSE LogRow(date, price, "Sell (Opening)", level - range, level, 0, quantity, cost)

\* for buy_level in eligible_buy_levels / for sell_level in
\* eligible_sell_levels, from the i-th level on.
RECURSIVE OpenLevelsFrom(_, _, _, _, _, _, _, _)
OpenLevelsFrom(type, levels, i, range, date, price, grid_levels, acc) ==
    IF i > Len(levels) THEN acc
    ELSE IF Occupied(levels[i], acc.open_positions)
    THEN OpenLevelsFrom(type, levels, i + 1, range, date, price, grid_levels, acc)
    ELSE LET quantity == OpenQuantity(acc.working_capital, price, grid_levels)
             transaction_cost == OpenCost(acc.working_capital, price, grid_levels)
         IN  Bind([open_positions |-> Append(acc.open_positions,
                                         NewPosition(type, levels[i], range, quantity)),
                   trade_log |-> Append(acc.trade_log,
                                    OpeningRow(type, levels[i], range, date, price,
                                        quantity,
                                        RoundCost(transaction_cost, grid_levels))),
                   total_pnl |-> acc.total_pnl,
                   total_cost |-> DAdd(acc.total_cost, transaction_cost),
                   working_capital |-> acc.working_capital],
                  LAMBDA next :
                      OpenLevelsFrom(type, levels, i + 1, range, date, price,
                                     grid_levels, next))

\* Lines 153-178.
OpenPositions(date, price, acc) ==
    LET eligible_buy_levels  == EligibleBuyLevels(buy_levels, price)
        eligible_sell_levels == EligibleSellLevels(sell_levels, price)
    IN  Bind(acc, LAMBDA start :
            IF price < cfg.initial_price /\ eligible_buy_levels # <<>>
            THEN OpenLevelsFrom("Buy", eligible_buy_levels, 1, grid_range, date,
                                price, cfg.grid_levels, start)
            ELSE IF price > cfg.initial_price /\ eligible_sell_levels # <<>>
            THEN OpenLevelsFrom("Sell", eligible_sell_levels, 1, grid_range, date,
                                price, cfg.grid_levels, start)
            ELSE start)

\* What the loop body holds when it starts on a bar.
Books ==
    [open_positions |-> open_positions, trade_log |-> trade_log,
     total_pnl |-> total_pnl, total_cost |-> total_cost,
     working_capital |-> working_capital]

\* A bar that triggers no stop-loss: lines 130-178.
TradeBar ==
    /\ pc = "loop"
    /\ iteration < Len(df)
    /\ ~(Armed(cfg.stop_loss_enabled) /\ (\/ NextRow.close >= cfg.upper_stop_loss
                                   \/ NextRow.close <= cfg.lower_stop_loss))
    /\ \E acc \in {OpenPositions(NextRow.time, NextRow.close,
                       ManagePositions(NextRow.time, NextRow.close,
                                       cfg.grid_levels, Books))} :
           /\ iteration' = iteration + 1
           /\ open_positions' = acc.open_positions
           /\ trade_log' = acc.trade_log
           /\ total_pnl' = acc.total_pnl
           /\ total_cost' = acc.total_cost
           /\ working_capital' = acc.working_capital
    /\ ProgressCallback
    /\ UNCHANGED <<pc, cfg, df, grid_range, buy_levels, sell_levels,
                   stop_loss_triggered, stop_loss_trigger_date,
                   stop_loss_trigger_price, result, caller_vars>>

\* ------------------------------------------------------------------------
\* Lines 180-206: mark-to-market, totals, the trade-log frame, return
\* ------------------------------------------------------------------------

\* Mutation: the open positions are always marked at initial_price.
MtmPriceInitial == cfg.initial_price

\* Lines 181-186.
MtmPrice ==
    IF stop_loss_triggered THEN stop_loss_trigger_price
    ELSE IF df # <<>> THEN df[Len(df)].close
    ELSE cfg.initial_price

\* Lines 188-192, over the first n open positions.
RECURSIVE MtmValue(_, _, _)
MtmValue(positions, n, mtm_price) ==
    IF n = 0 THEN Zero
    ELSE DAdd(MtmValue(positions, n - 1, mtm_price),
              ClosePnl(positions[n], mtm_price))

\* The sum of the first n values of a column: cumsum().
RECURSIVE CumSum(_, _)
CumSum(column, n) == IF n = 0 THEN 0 ELSE CumSum(column, n - 1) + column[n]

\* trade_log_df['PNL_Current']
PnlColumn(log) == [n \in 1..Len(log) |-> log[n].PNL_Current]

\* trade_log_df['Transaction_Cost']
CostColumn(log) == [n \in 1..Len(log) |-> log[n].Transaction_Cost]

\* First value of the Seq column: range(1, len(trade_log_df) + 1).
FirstSeq == 1

\* Lines 198-203.
TradeLogFrame(log) ==
    [n \in 1..Len(log) |->
        [Seq |-> FirstSeq + n - 1,
         Date |-> log[n].Date, Price |-> log[n].Price, BS |-> log[n].BS,
         Entry_Level |-> log[n].Entry_Level, Target_Level |-> log[n].Target_Level,
         PNL_Current |-> log[n].PNL_Current, Quantity |-> log[n].Quantity,
         Transaction_Cost |-> log[n].Transaction_Cost,
         Cumulative_PNL |-> CumSum(PnlColumn(log), n),
         Cumulative_Cost |-> CumSum(CostColumn(log), n),
         Net_PNL |-> CumSum(PnlColumn(log), n) - CumSum(CostColumn(log), n)]]

\* roi = total_mtm / initial_capital * 100 (line 195) divides a Python
\* number by zero when initial_capital is 0 and no row was written: the
\* totals are then still the 0 they started as.  Once a row is written the
\* totals are numpy floats, whose division by zero yields nan or inf.
RoiRaises == cfg.initial_capital = 0 /\ trade_log = <<>>

\* The for loop has run out of bars, or was left by a break.
Finish ==
    /\ pc = "after_loop" \/ (pc = "loop" /\ iteration = Len(df))
    /\ ~RoiRaises
    /\ pc' = "done"
    /\ \E mtm_value \in {MtmValue(open_positions, Len(open_positions), MtmPrice)} :
       \E total_mtm \in {DSub(InCostUnits(DAdd(total_pnl, mtm_value), cfg.grid_levels),
                              total_cost)} :
           result' =
             [trade_log_df |-> TradeLogFrame(trade_log),
              total_pnl |-> total_pnl,
              mtm_value |-> mtm_value,
              total_mtm |-> total_mtm,
              total_cost |-> total_cost,
              roi |-> [num |-> DMul(100, total_mtm), den |-> cfg.initial_capital],
              open_trades |-> Len(open_positions),
              stop_loss_triggered |-> stop_loss_triggered,
              stop_loss_trigger_date |-> stop_loss_trigger_date,
              stop_loss_trigger_price |-> stop_loss_trigger_price]
    /\ UNCHANGED <<cfg, df, grid_range, buy_levels, sell_levels, iteration, trade_log,
                   total_pnl, total_cost, working_capital, open_positions,
                   stop_loss_triggered, stop_loss_trigger_date,
                   stop_loss_trigger_price, progress, caller_vars>>

\* Line 195 raises ZeroDivisionError: nothing is returned.
FinishRaises ==
    /\ pc = "after_loop" \/ (pc = "loop" /\ iteration = Len(df))
    /\ RoiRaises
    /\ pc' = "raised"
    /\ UNCHANGED <<cfg, df, grid_range, buy_levels, sell_levels, iteration, trade_log,
                   total_pnl, total_cost, working_capital, open_positions,
                   stop_loss_triggered, stop_loss_trigger_date,
                   stop_loss_trigger_price, result, progress, caller_vars>>

Next == Setup \/ UpperStopLoss \/ LowerStopLoss \/ TradeBar \/ Finish

Spec == Init /\ [][Next]_vars

\* ------------------------------------------------------------------------
\* Properties
\* ------------------------------------------------------------------------

IsOpening(row) == row.BS \in {"Buy (Opening)", "Sell (Opening)"}

IsTargetClose(row) == row.BS \in {"Sell (Closing)", "Buy (Closing)"}

IsStopLossClose(row) == row.BS \in {"Sell (SL Closing)", "Buy (SL Closing)"}

\* The bar the loop consumed last.
LastRow == df[iteration]

\* The books a later bar could change.
books == <<iteration, open_positions, trade_log, total_pnl, total_cost,
           working_capital>>

\* C1: once a stop-loss has triggered the run is terminal: no later bar is
\* consumed, no later step changes the open positions, the ledger or the
\* counters, and no ledger row (running or returned) is dated after the
\* trigger bar.
C1_StopLossIsTerminal ==
    /\ [](stop_loss_triggered =>
            \A n \in 1..Len(trade_log) : trade_log[n].Date <= stop_loss_trigger_date)
    /\ [](pc = "done" /\ stop_loss_triggered =>
            /\ result.stop_loss_triggered
            /\ \A n \in 1..Len(result.trade_log_df) :
                   result.trade_log_df[n].Date <= result.stop_loss_trigger_date)
    /\ [][stop_loss_triggered => books' = books]_vars

\* A stop-loss fired while bars were still unread, closed a position, and
\* the call has returned.
C1_Witness ==
    /\ pc = "done"
    /\ stop_loss_triggered
    /\ iteration < Len(df)
    /\ trade_log # <<>>

\* C2: the open set never holds two positions with the same entry level.
C2_OnePositionPerLevel ==
    \A i, j \in 1..Len(open_positions) :
        i # j => open_positions[i].price # open_positions[j].price

\* A bar reached a level that a position opened by an earlier bar still
\* occupies (and two positions are open).
C2_Witness ==
    /\ pc = "loop"
    /\ iteration >= 2
    /\ Len(open_positions) >= 2
    /\ \E j \in 1..Len(open_positions) :
           /\ open_positions[j].type = "Buy"
           /\ LastRow.close <= open_positions[j].price
           /\ \E n \in 1..Len(trade_log) :
                  /\ trade_log[n].BS = "Buy (Opening)"
                  /\ trade_log[n].Entry_Level = open_positions[j].price
                  /\ trade_log[n].Date < LastRow.time

\* C3: the returned ledger's Seq values are exactly 1..N in insertion
\* order, and insertion order is chronological: dates never decrease along
\* the ledger, while it is built and as returned.
C3_SeqGapFreeChronological ==
    /\ \A n \in 1..(Len(trade_log) - 1) : trade_log[n].Date <= trade_log[n + 1].Date
    /\ pc = "done" =>
          /\ Len(result.trade_log_df) = Len(trade_log)
          /\ \A n \in 1..Len(result.trade_log_df) :
                 /\ result.trade_log_df[n].Seq = n
                 /\ result.trade_log_df[n].Date = trade_log[n].Date
                 /\ result.trade_log_df[n].BS = trade_log[n].BS

\* A returned ledger of at least three rows written by bars of different
\* dates.
C3_Witness ==
    /\ pc = "done"
    /\ Len(result.trade_log_df) >= 3
    /\ result.trade_log_df[1].Date < result.trade_log_df[Len(result.trade_log_df)].Date

\* An amount of the ledger (units of 10^-3) in units of 10^-8.
LedgerAmount(n) == DTimesPow10(DInt(n), QuantityDecimals - LedgerDecimals)

\* An amount of the ledger (units of 10^-3) in the units of a cost.
LedgerCost(n, grid_levels) == InCostUnits(LedgerAmount(n), grid_levels)

\* C4: on return, the sum of the ledger's PNL_Current column (the last
\* Cumulative_PNL) equals the returned total_pnl exactly, and the sum of its
\* Transaction_Cost column (the last Cumulative_Cost) equals the returned
\* total_cost exactly.
C4_LedgerSumsReproduceTotals ==
    pc = "done" =>
        /\ LedgerAmount(CumSum(PnlColumn(result.trade_log_df),
                               Len(result.trade_log_df))) = result.total_pnl
        /\ LedgerCost(CumSum(CostColumn(result.trade_log_df),
                             Len(result.trade_log_df)), cfg.grid_levels)
               = result.total_cost

\* |a - b| <= bound
DWithin(a, b, bound) == DLeq(DSub(a, b), bound) /\ DLeq(DSub(b, a), bound)

\* Half a unit of the last ledger decimal for each of n rows, in units of
\* 10^-8.
HalfUnits(n) == DInt(n * 5 * 10 ^ (QuantityDecimals - LedgerDecimals - 1))

\* C4, amended: on return, the sum of the ledger's PNL_Current column (the
\* last Cumulative_PNL) differs from the returned total_pnl by at most
\* 0.0005 for each ledger row, and the sum of its Transaction_Cost column
\* (the last Cumulative_Cost) from the returned total_cost likewise: the
\* rows are rounded to 3 decimals, the totals are not.
C4_LedgerSumsWithinRounding ==
    pc = "done" =>
        /\ DWithin(LedgerAmount(CumSum(PnlColumn(result.trade_log_df),
                                       Len(result.trade_log_df))),
                   result.total_pnl,
                   HalfUnits(Len(result.trade_log_df)))
        /\ DWithin(LedgerCost(CumSum(CostColumn(result.trade_log_df),
                                     Len(result.trade_log_df)), cfg.grid_levels),
                   result.total_cost,
                   InCostUnits(HalfUnits(Len(result.trade_log_df)), cfg.grid_levels))
        /\ Len(result.trade_log_df) > 0 =>
              /\ result.trade_log_df[Len(result.trade_log_df)].Cumulative_PNL
                     = CumSum(PnlColumn(result.trade_log_df), Len(result.trade_log_df))
              /\ result.trade_log_df[Len(result.trade_log_df)].Cumulative_Cost
                     = CumSum(CostColumn(result.trade_log_df), Len(result.trade_log_df))

\* A run returns with a closing row in its ledger whose rounding shows in
\* both sums.
C4_Witness ==
    /\ pc = "done"
    /\ \E n \in 1..Len(result.trade_log_df) : IsTargetClose(result.trade_log_df[n])
    /\ LedgerAmount(CumSum(PnlColumn(result.trade_log_df),
                           Len(result.trade_log_df))) # result.total_pnl
    /\ LedgerCost(CumSum(CostColumn(result.trade_log_df),
                         Len(result.trade_log_df)), cfg.grid_levels)
           # result.total_cost

\* The amount whole.abcdefgh, given as whole, abcd and efgh, in units of 10^-8.
Decimal8(whole, abcd, efgh) == <<efgh, abcd, whole, 0, 0, 0>>

\* The frame of the concrete scenario: closes 100, 90, 110.
C5_Bars == Stamped(<<100, 90, 110>>)

\* The call of the scenario on the grid g, stop-loss disabled, once started.
C5_Call(g) == pc # "call" /\ cfg = Config(g, FALSE) /\ df = C5_Bars

\* C5 as stated: initial_price 100, lower_limit 80, upper_limit 120, 2 grid
\* levels, capital 1000, leverage 1, stop-loss disabled, closes 100, 90, 110.
\* Bar 1 writes no row; bar 2 opens a long at level 90 with quantity
\* 1000/(90*2) = 5.55555556 and target 100; bar 3 closes it at 110 with PnL
\* (110-90)*quantity (111.111 in the ledger) and cost 0.0002*110*quantity
\* (0.122), then opens a short at level 110 with target 100 sized
\* 1000/(110*2) = 4.54545455.
C5_ScenarioAsStated ==
    C5_Call(<<80, 120, 2>>) =>
        /\ iteration = 1 => trade_log = <<>>
        /\ iteration = 2 =>
              trade_log = <<LogRow(2, 90, "Buy (Opening)", 90, 100, 0,
                                   Decimal8(5, 5555, 5556), 100)>>
        /\ iteration = 3 =>
              /\ Len(trade_log) = 3
              /\ trade_log[2] = LogRow(3, 110, "Sell (Closing)", 90, 100, 111111,
                                       Decimal8(5, 5555, 5556), 122)
              /\ trade_log[3].BS = "Sell (Opening)"
              /\ trade_log[3].Target_Level = 110
              /\ trade_log[3].Entry_Level = 100
              /\ trade_log[3].Quantity = Decimal8(4, 5454, 5455)

\* C5, amended: the same scenario with lower_limit 90 and upper_limit 110,
\* so that the spacing (upper_limit - lower_limit) / grid_levels is 10 and
\* the levels are 90, 80 and 110, 120.  Bar 1 writes no row; bar 2 opens a
\* long at level 90, quantity 5.55555556, target 100; bar 3 closes it at 110
\* with PnL 111.1111112 and then opens a short at level 110, target 100,
\* sized (1000 + 111.1111112)/(110*2) = 5.05050505.  With the limits 80 and
\* 120 the spacing is 20, the levels are 80, 60 and 120, 140, and the three
\* bars write no row at all.
C5_ScenarioAmended ==
    /\ C5_Call(<<90, 110, 2>>) =>
          /\ buy_levels = <<90, 80>> /\ sell_levels = <<110, 120>>
          /\ iteration <= 1 => trade_log = <<>> /\ open_positions = <<>>
          /\ iteration = 2 =>
                /\ trade_log = <<LogRow(2, 90, "Buy (Opening)", 90, 100, 0,
                                        Decimal8(5, 5555, 5556), 100)>>
                /\ open_positions =
                       <<[type |-> "Buy", price |-> 90, target_sell_level |-> 100,
                          quantity |-> Decimal8(5, 5555, 5556)]>>
          /\ iteration = 3 =>
                /\ trade_log =
                       <<LogRow(2, 90, "Buy (Opening)", 90, 100, 0,
                                Decimal8(5, 5555, 5556), 100),
                         LogRow(3, 110, "Sell (Closing)", 90, 100, 111111,
                                Decimal8(5, 5555, 5556), 122),
                         LogRow(3, 110, "Sell (Opening)", 100, 110, 0,
                                Decimal8(5, 505, 505), 111)>>
                /\ open_positions =
                       <<[type |-> "Sell", price |-> 110, target_buy_level |-> 100,
                          quantity |-> Decimal8(5, 505, 505)]>>
                /\ total_pnl = Decimal8(111, 1111, 1120)
                /\ working_capital = Decimal8(1111, 1111, 1120)
    /\ C5_Call(<<80, 120, 2>>) =>
          /\ buy_levels = <<80, 60>> /\ sell_levels = <<120, 140>>
          /\ trade_log = <<>>

\* The amended scenario has run to its end.
C5_Witness ==
    /\ C5_Call(<<90, 110, 2>>)
    /\ pc = "done"
    /\ Len(result.trade_log_df) = 3

\* The PnL a ledger row realized, recomputed from its columns (a short's
\* row holds the position's level in Target_Level).
RowPnl(row) ==
    IF row.BS \in {"Sell (Closing)", "Sell (SL Closing)"}
    THEN DMul(row.Price - row.Entry_Level, row.Quantity)
    ELSE IF row.BS \in {"Buy (Closing)", "Buy (SL Closing)"}
    THEN DMul(row.Target_Level - row.Price, row.Quantity)
    ELSE Zero

\* initial_capital * leverage plus the PnL realized by the first n rows.
RECURSIVE CapitalAfterRows(_, _)
CapitalAfterRows(log, n) ==
    IF n = 0 THEN Money(cfg.initial_capital * cfg.leverage)
    ELSE DAdd(CapitalAfterRows(log, n - 1), RowPnl(log[n]))

\* C6: working_capital is initial_capital * leverage plus every PnL realized
\* so far, by target closes and by stop-loss closes, and nothing else (no
\* cost is taken off); every opening is sized working_capital / (bar price *
\* grid_levels), to the 8 decimals a quantity is kept with, from the
\* working capital of that moment: the PnL of the rows written before it,
\* those of the same bar included.
C6_WorkingCapitalAndSizing ==
    pc # "call" =>
        /\ working_capital = CapitalAfterRows(trade_log, Len(trade_log))
        /\ \A n \in 1..Len(trade_log) :
               IsOpening(trade_log[n]) =>
                   trade_log[n].Quantity =
                       DDivRound(CapitalAfterRows(trade_log, n - 1),
                                 trade_log[n].Price * cfg.grid_levels)
        /\ \A j \in 1..Len(open_positions) :
               \E n \in 1..Len(trade_log) :
                   /\ IsOpening(trade_log[n])
                   /\ trade_log[n].Quantity = open_positions[j].quantity
                   /\ open_positions[j].price =
                          (IF open_positions[j].type = "Buy"
                           THEN trade_log[n].Entry_Level
                           ELSE trade_log[n].Target_Level)

\* An opening sized right after a close of the same bar.
C6_Witness ==
    \E n \in 2..Len(trade_log) :
        /\ IsOpening(trade_log[n])
        /\ IsTargetClose(trade_log[n - 1])
        /\ trade_log[n].Date = trade_log[n - 1].Date

\* The closes never fall from bar to bar.
Rising(d) == \A i \in 1..(Len(d) - 1) : d[i].close <= d[i + 1].close

\* The rows that open a position at `level`.
OpeningsAt(log, level) ==
    {n \in 1..Len(log) :
        \/ log[n].BS = "Buy (Opening)" /\ log[n].Entry_Level = level
        \/ log[n].BS = "Sell (Opening)" /\ log[n].Target_Level = level}

\* C7: with the stop-loss disabled, a series rising from a first close below
\* lower_limit to a last close above upper_limit opens every buy level and
\* every sell level exactly once: 2 * grid_levels opening rows.
C7_RisingSeriesOpensEveryLevel ==
    (/\ pc = "done"
     /\ ~cfg.stop_loss_enabled
     /\ df # <<>>
     /\ Rising(df)
     /\ df[1].close < cfg.lower_limit
     /\ df[Len(df)].close > cfg.upper_limit)
    => /\ \A i \in 1..cfg.grid_levels :
              /\ Cardinality(OpeningsAt(trade_log, buy_levels[i])) = 1
              /\ Cardinality(OpeningsAt(trade_log, sell_levels[i])) = 1
       /\ Cardinality({n \in 1..Len(trade_log) : IsOpening(trade_log[n])})
              = 2 * cfg.grid_levels

\* C7, amended: with the stop-loss disabled, a series rising from a first
\* close at or below the lowest buy level (initial_price - grid_levels *
\* grid_range) to a last close at or above the highest sell level
\* (initial_price + grid_levels * grid_range) opens every buy level and
\* every sell level exactly once, a close equal to a level included:
\* 2 * grid_levels opening rows.  The levels reach beyond lower_limit and
\* upper_limit, which only set the spacing.
C7_RisingSeriesAcrossAllLevels ==
    (/\ pc = "done"
     /\ ~cfg.stop_loss_enabled
     /\ df # <<>>
     /\ Rising(df)
     /\ df[1].close <= buy_levels[cfg.grid_levels]
     /\ df[Len(df)].close >= sell_levels[cfg.grid_levels])
    => /\ \A i \in 1..cfg.grid_levels :
              /\ Cardinality(OpeningsAt(trade_log, buy_levels[i])) = 1
              /\ Cardinality(OpeningsAt(trade_log, sell_levels[i])) = 1
       /\ Cardinality({n \in 1..Len(trade_log) : IsOpening(trade_log[n])})
              = 2 * cfg.grid_levels

\* A run over a series from the lowest buy level exactly to the highest
\* sell level exactly, through a bar in between, has returned.
C7_Witness ==
    /\ pc = "done"
    /\ ~cfg.stop_loss_enabled
    /\ Len(df) = 3
    /\ Rising(df)
    /\ df[1].close = buy_levels[cfg.grid_levels]
    /\ df[3].close = sell_levels[cfg.grid_levels]
    /\ Len(result.trade_log_df) > 2 * cfg.grid_levels

\* The upper stop-loss has fired.
UpperStopLossFired ==
    stop_loss_triggered /\ LastRow.close >= cfg.upper_stop_loss

\* C8 as stated: on an upper-stop-loss breach the positions are closed at
\* the trigger price and not at the bar's close.
C8_ClosedAtTriggerNotAtClose ==
    UpperStopLossFired =>
        \A n \in 1..Len(trade_log) :
            IsStopLossClose(trade_log[n]) =>
                /\ trade_log[n].Price = stop_loss_trigger_price
                /\ trade_log[n].Price # LastRow.close

\* C8, amended: on an upper-stop-loss breach the recorded trigger price is
\* the close of the trigger bar, and every stop-loss row carries it as its
\* price and as the price its PnL is taken at.
C8_ClosedAtTriggerBarClose ==
    UpperStopLossFired =>
        /\ stop_loss_trigger_price = LastRow.close
        /\ stop_loss_trigger_date = LastRow.time
        /\ \A n \in 1..Len(trade_log) :
               IsStopLossClose(trade_log[n]) =>
                   /\ trade_log[n].Date = stop_loss_trigger_date
                   /\ trade_log[n].Price = stop_loss_trigger_price
                   /\ trade_log[n].BS = "Sell (SL Closing)" =>
                          /\ trade_log[n].Target_Level = stop_loss_trigger_price
                          /\ trade_log[n].PNL_Current =
                                 RoundAmount(DMul(stop_loss_trigger_price
                                                     - trade_log[n].Entry_Level,
                                                  trade_log[n].Quantity))
                   /\ trade_log[n].BS = "Buy (SL Closing)" =>
                          /\ trade_log[n].Entry_Level = stop_loss_trigger_price
                          /\ trade_log[n].PNL_Current =
                                 RoundAmount(DMul(trade_log[n].Target_Level
                                                     - stop_loss_trigger_price,
                                                  trade_log[n].Quantity))

\* The upper stop-loss fired on a close above the threshold and closed two
\* positions.
C8_Witness ==
    /\ UpperStopLossFired
    /\ LastRow.close > cfg.upper_stop_loss
    /\ Cardinality({n \in 1..Len(trade_log) : IsStopLossClose(trade_log[n])}) >= 2

\* (at - entry) * quantity for a long, (entry - at) * quantity for a short.
PnlAt(pos, at) ==
    DMul((IF pos.type = "Buy" THEN 1 ELSE -1) * (at - pos.price), pos.quantity)

\* 0.0002 * at * quantity, in the units of a cost.
CostAt(pos, at) == DMul(cfg.grid_levels, DMul(FeeNumerator * at, pos.quantity))

\* The sums of PnlAt and of CostAt over the first n of the positions.
RECURSIVE SumPnlAt(_, _, _)
SumPnlAt(positions, n, at) ==
    IF n = 0 THEN Zero
    ELSE DAdd(SumPnlAt(positions, n - 1, at), PnlAt(positions[n], at))

RECURSIVE SumCostAt(_, _, _)
SumCostAt(positions, n, at) ==
    IF n = 0 THEN Zero
    ELSE DAdd(SumCostAt(positions, n - 1, at), CostAt(positions[n], at))

\* The stop-loss row of the j-th open position, among the rows the step
\* appends.
StopLossRowOf(j) ==
    /\ trade_log'[Len(trade_log) + j].BS =
           (IF open_positions[j].type = "Buy" THEN "Sell (SL Closing)"
                                              ELSE "Buy (SL Closing)")
    /\ trade_log'[Len(trade_log) + j].Date = stop_loss_trigger_date'
    /\ trade_log'[Len(trade_log) + j].Price = stop_loss_trigger_price'
    /\ trade_log'[Len(trade_log) + j].Quantity = open_positions[j].quantity
    /\ trade_log'[Len(trade_log) + j].PNL_Current =
           RoundAmount(PnlAt(open_positions[j], stop_loss_trigger_price'))
    /\ trade_log'[Len(trade_log) + j].Transaction_Cost =
           RoundCost(CostAt(open_positions[j], stop_loss_trigger_price'),
                     cfg.grid_levels)

\* A step on which a stop-loss fires with k open positions appends k
\* stop-loss rows, one per position, adds their PnL and cost to the totals
\* and empties the open set.
StopLossStep ==
    /\ Len(trade_log') = Len(trade_log) + Len(open_positions)
    /\ SubSeq(trade_log', 1, Len(trade_log)) = trade_log
    /\ \A j \in 1..Len(open_positions) : StopLossRowOf(j)
    /\ total_pnl' = DAdd(total_pnl,
                         SumPnlAt(open_positions, Len(open_positions),
                                  stop_loss_trigger_price'))
    /\ total_cost' = DAdd(total_cost,
                          SumCostAt(open_positions, Len(open_positions),
                                    stop_loss_trigger_price'))
    /\ open_positions' = <<>>

\* C9: when a stop-loss fires (upper or lower) with k open positions, exactly
\* k stop-loss rows are appended, one per position, each with PnL
\* (trigger - entry) * quantity for a long or (entry - trigger) * quantity
\* for a short and cost 0.0002 * trigger * quantity (both rounded to 3
\* decimals in the row); the open set is empty from then on, and the run
\* returns 0 open trades and a mark-to-market value of 0.
C9_StopLossClosesEveryPosition ==
    /\ [][(~stop_loss_triggered /\ stop_loss_triggered') => StopLossStep]_vars
    /\ [](stop_loss_triggered => open_positions = <<>>)
    /\ [](pc = "done" /\ stop_loss_triggered =>
              /\ result.open_trades = 0
              /\ result.mtm_value = Zero)

\* A run whose lower stop-loss closed two longs has returned.
C9_Witness ==
    /\ pc = "done"
    /\ result.stop_loss_triggered
    /\ LastRow.close <= cfg.lower_stop_loss
    /\ Cardinality({n \in 1..Len(result.trade_log_df) :
                       result.trade_log_df[n].BS = "Sell (SL Closing)"}) >= 2

\* The target of pos is reached by the bar price.
Reached(pos, price) ==
    IF pos.type = "Buy" THEN price >= pos.target_sell_level
                        ELSE price <= pos.target_buy_level

\* The PnL of the positions, among the first n, whose target `price` reaches.
RECURSIVE SumReachedPnl(_, _, _)
SumReachedPnl(positions, n, price) ==
    IF n = 0 THEN Zero
    ELSE IF Reached(positions[n], price)
    THEN DAdd(SumReachedPnl(positions, n - 1, price), PnlAt(positions[n], price))
    ELSE SumReachedPnl(positions, n - 1, price)

\* What tells one open position from another.
PosKey(pos) == <<pos.type, pos.price, pos.quantity>>

\* The row is the "(Closing)" row of pos at the bar (date, price).
ClosingRowOf(row, pos, date, price) ==
    /\ row.BS = (IF pos.type = "Buy" THEN "Sell (Closing)" ELSE "Buy (Closing)")
    /\ row.Date = date
    /\ row.Price = price
    /\ row.Quantity = pos.quantity
    /\ pos.price = (IF pos.type = "Buy" THEN row.Entry_Level ELSE row.Target_Level)
    /\ row.PNL_Current = RoundAmount(PnlAt(pos, price))

\* The rows a step appends that are "(Closing)" rows.
NewClosingRows ==
    {n \in (Len(trade_log) + 1)..Len(trade_log') : IsTargetClose(trade_log'[n])}

\* A step that trades a bar closes every position whose target the bar price
\* reaches, at the bar price, with one "(Closing)" row each, and keeps every
\* other position.
TargetCloseStep ==
    /\ Cardinality(NewClosingRows) =
           Cardinality({j \in 1..Len(open_positions) :
                           Reached(open_positions[j], df[iteration'].close)})
    /\ \A j \in 1..Len(open_positions) :
           IF Reached(open_positions[j], df[iteration'].close)
           THEN /\ \A k \in 1..Len(open_positions') :
                       PosKey(open_positions'[k]) # PosKey(open_positions[j])
                /\ Cardinality({n \in NewClosingRows :
                                   ClosingRowOf(trade_log'[n], open_positions[j],
                                                df[iteration'].time,
                                                df[iteration'].close)}) = 1
           ELSE \E k \in 1..Len(open_positions') :
                    open_positions'[k] = open_positions[j]
    /\ total_pnl' = DAdd(total_pnl,
                         SumReachedPnl(open_positions, Len(open_positions),
                                       df[iteration'].close))

\* C10: in the target-close step of a bar, every open position whose target
\* the bar price reaches (long: price >= target_sell_level; short: price <=
\* target_buy_level) is closed in that bar, however many there are: each is
\* realized at the bar price, gets one "(Closing)" row and leaves the open
\* set; no position whose target is not reached leaves it.
C10_EveryReachedTargetCloses ==
    [][(pc = "loop" /\ pc' = "loop" /\ iteration' = iteration + 1)
           => TargetCloseStep]_vars

\* A bar closed two positions and kept a third, opened on an earlier bar.
C10_Witness ==
    \E n \in 2..(Len(trade_log) - 1) :
        /\ IsTargetClose(trade_log[n])
        /\ IsTargetClose(trade_log[n + 1])
        /\ trade_log[n].Date = trade_log[n + 1].Date
        /\ \E m \in 1..(n - 1) :
               /\ IsOpening(trade_log[m])
               /\ trade_log[m].Date < trade_log[n].Date
               /\ \E j \in 1..Len(open_positions) :
                      /\ open_positions[j].quantity = trade_log[m].Quantity
                      /\ open_positions[j].price =
                             (IF open_positions[j].type = "Buy"
                              THEN trade_log[m].Entry_Level
                              ELSE trade_log[m].Target_Level)

\* The positions of a bar's open step: those the target-close step kept.
KeptPositions(price) ==
    SelectSeq(open_positions, LAMBDA pos : ~Reached(pos, price))

\* The levels of one side that the open step of a bar at `price` opens:
\* buy levels >= price when price < initial_price, sell levels <= price
\* when price > initial_price, without the levels a kept position holds.
LevelsToOpen(type, price) ==
    {level \in (IF type = "Buy"
                THEN {buy_levels[i] : i \in 1..Len(buy_levels)}
                ELSE {sell_levels[i] : i \in 1..Len(sell_levels)}) :
        /\ IF type = "Buy" THEN price < cfg.initial_price /\ level >= price
                           ELSE price > cfg.initial_price /\ level <= price
        /\ \A j \in 1..Len(KeptPositions(price)) :
               KeptPositions(price)[j].price # level}

\* The rows a step appends that open a position of `type` at `level`.
NewOpeningRows(type, level) ==
    {n \in (Len(trade_log) + 1)..Len(trade_log') :
        /\ trade_log'[n].BS = (IF type = "Buy" THEN "Buy (Opening)"
                                               ELSE "Sell (Opening)")
        /\ level = (IF type = "Buy" THEN trade_log'[n].Entry_Level
                                    ELSE trade_log'[n].Target_Level)}

\* A step that trades a bar opens one position at each level of
\* LevelsToOpen, with its row and its target one spacing away, and nothing
\* else.
OpenStep ==
    /\ \A type \in {"Buy", "Sell"} :
           \A level \in LevelsToOpen(type, df[iteration'].close) :
               /\ Cardinality(NewOpeningRows(type, level)) = 1
               /\ Cardinality({j \in 1..Len(open_positions') :
                      /\ open_positions'[j].type = type
                      /\ open_positions'[j].price = level
                      /\ IF type = "Buy"
                         THEN open_positions'[j].target_sell_level = level + grid_range
                         ELSE open_positions'[j].target_buy_level = level - grid_range})
                      = 1
    /\ Cardinality({n \in (Len(trade_log) + 1)..Len(trade_log') :
                       IsOpening(trade_log'[n])})
           = Cardinality(LevelsToOpen("Buy", df[iteration'].close))
               + Cardinality(LevelsToOpen("Sell", df[iteration'].close))
    /\ Len(open_positions') =
           Len(KeptPositions(df[iteration'].close))
               + Cardinality(LevelsToOpen("Buy", df[iteration'].close))
               + Cardinality(LevelsToOpen("Sell", df[iteration'].close))
    /\ df[iteration'].close = cfg.initial_price =>
           \A n \in (Len(trade_log) + 1)..Len(trade_log') :
               ~IsOpening(trade_log'[n])

\* C11: in the open step of a bar only one side is evaluated: if price <
\* initial_price a long is opened at every buy level >= price that holds no
\* open position, if price > initial_price a short at every sell level <=
\* price that holds none, and if price = initial_price nothing is opened; a
\* price that went through several free levels opens them all in that bar.
C11_OpenStepOneSideEveryFreeLevel ==
    [][(pc = "loop" /\ pc' = "loop" /\ iteration' = iteration + 1)
           => OpenStep]_vars

\* A bar above initial_price has opened two shorts at once, and a bar at
\* initial_price has followed it.
C11_Witness ==
    /\ pc = "loop"
    /\ iteration >= 2
    /\ df[iteration].close = cfg.initial_price
    /\ \E n \in 1..(Len(trade_log) - 1) :
           /\ trade_log[n].BS = "Sell (Opening)"
           /\ trade_log[n + 1].BS = "Sell (Opening)"
           /\ trade_log[n].Date = trade_log[n + 1].Date

\* The price the open positions are marked at on return: the stop-loss
\* trigger price if a stop-loss fired, else the close of the last bar, else
\* initial_price.
C12_ReferencePrice ==
    IF result.stop_loss_triggered THEN result.stop_loss_trigger_price
    ELSE IF Len(df) > 0 THEN df[Len(df)].close
    ELSE cfg.initial_price

\* C12: on return the mark-to-market value is the sum, over the positions
\* still open, of (mtm_price - entry) * quantity for a long and (entry -
\* mtm_price) * quantity for a short, mtm_price being the stop-loss trigger
\* price if a stop-loss fired, else the close of the last bar processed,
\* else initial_price when there is no bar.
C12_MarkToMarket ==
    pc = "done" =>
        /\ result.mtm_value =
               SumPnlAt(open_positions, Len(open_positions), C12_ReferencePrice)
        /\ result.open_trades = Len(open_positions)
        /\ ~result.stop_loss_triggered /\ Len(df) > 0 => iteration = Len(df)

\* A run has returned with two positions open, marked at a last close that
\* leaves them a value.
C12_Witness ==
    /\ pc = "done"
    /\ ~result.stop_loss_triggered
    /\ result.mtm_value # Zero
    /\ result.open_trades >= 2

\* ------------------------------------------------------------------------
\* Two calls in a row with the same arguments
\* ------------------------------------------------------------------------

\* The caller keeps what the first call returned and calls again with the
\* arguments of the first call.  What the first call left in its names is
\* still there when the second call starts: line 47-67 must replace it.
CallAgain ==
    /\ handler = "twice"
    /\ hpc = "engine"
    /\ pc = "done"
    /\ hpc' = "again"
    /\ previous' = result
    /\ pc' = "call"
    /\ df' = frame
    /\ UNCHANGED <<cfg, grid_range, buy_levels, sell_levels, iteration, trade_log,
                   total_pnl, total_cost, working_capital, open_positions,
                   stop_loss_triggered, stop_loss_trigger_date,
                   stop_loss_trigger_price, result, progress, thread_vars, handler,
                   entries, market, self_df, fetch, frame, combination, current_iteration,
                   best_pnl, best_params, best_trade_log_df, shown,
                   status>>

InitTwice ==
    /\ pc = "call"
    /\ cfg \in Configs
    /\ df \in Frames
    /\ NotCalled
    /\ NoWindow("twice")

NextTwice ==
    Setup \/ UpperStopLoss \/ LowerStopLoss \/ TradeBar \/ Finish \/ CallAgain

SpecTwice == InitTwice /\ [][NextTwice]_vars

\* C13: a second call of grid_bot_strategy with the arguments of the first
\* returns what the first returned: the same ledger, row by row, and the
\* same totals, mark-to-market value, ROI, open-trade count and stop-loss
\* record.  Nothing of the first call leaks into the second.
C13_SecondCallReturnsTheSame ==
    (hpc = "again" /\ pc = "done") => result = previous

\* A second call has returned, with a ledger of openings and closings, a
\* position still open and a stop-loss record.
C13_Witness ==
    /\ hpc = "again"
    /\ pc = "done"
    /\ \E n \in DOMAIN result.trade_log_df : IsTargetClose(result.trade_log_df[n])
    /\ \E n \in DOMAIN previous.trade_log_df : IsStopLossClose(previous.trade_log_df[n])
    /\ previous.stop_loss_triggered

\* ------------------------------------------------------------------------
\* Calls with arguments nothing has checked
\* ------------------------------------------------------------------------

\* Grids of no level, of a negative number of levels, of an upper limit
\* below or at the lower limit, and a well-formed one.
UncheckedGrids ==
    {<<90, 110, 0>>, <<90, 110, -2>>, <<110, 90, 2>>, <<100, 100, 2>>, <<90, 110, 2>>}

\* Date windows (start_date, end_date): one that holds every bar, one that
\* holds none.
Windows == {<<1, MaxBars>>, <<MaxBars + 1, MaxBars + 1>>}

UncheckedConfigs ==
    {[Config(g, sl) EXCEPT !.start_date = w[1], !.end_date = w[2]] :
        g \in UncheckedGrids, sl \in BOOLEAN, w \in Windows}

InitUnchecked ==
    /\ pc = "call"
    /\ cfg \in UncheckedConfigs
    /\ df \in Frames
    /\ NotCalled
    /\ NoWindow("grid_bot_strategy")

NextUnchecked ==
    Setup \/ SetupRaises \/ UpperStopLoss \/ LowerStopLoss \/ TradeBar \/ Finish

SpecUnchecked == InitUnchecked /\ [][NextUnchecked]_vars

\* C19: whenever grid_levels <= 0 or upper_limit <= lower_limit, planning
\* the grid fails: the call returns nothing, no level is produced and no
\* bar is processed.
C19_MalformedGridFailsBeforeAnyBar ==
    (cfg.grid_levels <= 0 \/ cfg.upper_limit <= cfg.lower_limit) =>
        /\ pc # "done"
        /\ buy_levels = <<>>
        /\ sell_levels = <<>>
        /\ iteration = 0

\* What the code does instead, grid by grid: no level count but 0 fails
\* (on the division of line 51); a negative count gives empty level lists
\* and the bars are read; upper_limit <= lower_limit gives grid_levels
\* levels on either side with a spacing <= 0.
C19_OnlyZeroLevelsRaises ==
    /\ cfg.grid_levels = 0 =>
          /\ pc \in {"call", "raised"}
          /\ buy_levels = <<>> /\ sell_levels = <<>> /\ iteration = 0
    /\ cfg.grid_levels # 0 => pc # "raised"
    /\ (cfg.grid_levels < 0 /\ pc # "call") =>
          buy_levels = <<>> /\ sell_levels = <<>>
    /\ (cfg.grid_levels > 0 /\ pc # "call") =>
          /\ grid_range * cfg.grid_levels = cfg.upper_limit - cfg.lower_limit
          /\ Len(buy_levels) = cfg.grid_levels
          /\ Len(sell_levels) = cfg.grid_levels
          /\ \A i \in 1..cfg.grid_levels :
                /\ buy_levels[i] = cfg.initial_price - i * grid_range
                /\ sell_levels[i] = cfg.initial_price + i * grid_range

\* A call with upper_limit below lower_limit has returned a ledger with a
\* closing row.
C19_Witness ==
    /\ pc = "done"
    /\ cfg.upper_limit < cfg.lower_limit
    /\ \E n \in DOMAIN result.trade_log_df : IsTargetClose(result.trade_log_df[n])

\* C20: the call returns nothing when the bars left by the date filter are
\* none or when grid_levels <= 0.
C20_NoBarsOrNoLevelsReturnsNothing ==
    pc = "done" => (df # <<>> /\ cfg.grid_levels > 0)

\* What the code does instead: only grid_levels = 0 raises; with no bar
\* left, or with a negative grid_levels, the call returns an empty ledger,
\* zero totals and no open trade.
C20_OnlyZeroLevelsReturnsNothing ==
    /\ pc = "raised" <=> (cfg.grid_levels = 0 /\ pc # "call")
    /\ (pc = "done" /\ (df = <<>> \/ cfg.grid_levels < 0)) =>
          /\ result.trade_log_df = <<>>
          /\ result.total_pnl = Zero
          /\ result.total_cost = Zero
          /\ result.mtm_value = Zero
          /\ result.total_mtm = Zero
          /\ result.open_trades = 0

\* A call whose date window holds no bar has returned.
C20_Witness ==
    /\ pc = "done"
    /\ df = <<>>
    /\ frame # <<>>
    /\ cfg.grid_levels > 0

\* ------------------------------------------------------------------------
\* GridBotGUI: fetch_data, run_strategy, optimize_strategy
\* ------------------------------------------------------------------------

\* The distance in time between two bars of the exchange.
Timeframe == 10

\* fetch_ohlcv(..., limit=1000): the most bars one request returns.
FetchLimit == 2

\* timeframe_seconds = exchange_class.parse_timeframe(timeframe) * 60
TimeframeFactor == 60

\* The bars the exchange holds, with the closes ps.
Exchange(ps) == [i \in 1..Len(ps) |-> [time |-> i * Timeframe, close |-> ps[i]]]

\* The price in the initial-price field: the smallest for which every
\* spacing of the sweep is a whole number.
EntryPrice == 168000

\* The entry fields, all in absolute mode and holding well-formed numbers:
\* a window from before the first bar to the MaxBars-th, limits at 5 % and
\* stop-loss prices at 10 % of the initial price.
Entries(capital, sl) ==
    [start_date |-> 1, end_date |-> MaxBars * Timeframe,
     initial_price |-> EntryPrice,
     lower_limit |-> 159600, upper_limit |-> 176400, grid_levels |-> 20,
     initial_capital |-> capital, leverage |-> 5,
     lower_stop_loss |-> 151200, upper_stop_loss |-> 184800,
     stop_loss_enabled |-> sl]

\* self.df: absent until a handler has stored what fetch_data returned.
NoFrame == [has |-> FALSE, rows |-> <<>>]

Fetched(rows) == [has |-> TRUE, rows |-> rows]

\* Closes around the initial price, below the lower and above the upper
\* stop-loss price.
RunCloses == {166992, 168000, 150000, 186000}

\* Run Strategy is pressed: any market of up to MaxBars bars.
RunSessions ==
    {[handler |-> "run_strategy", entries |-> Entries(capital, sl),
      market |-> Exchange(ps), self_df |-> NoFrame] :
        capital \in {1000, 0}, sl \in BOOLEAN, ps \in SeqsUpTo(RunCloses, MaxBars)}

\* The markets of the sweeps and whether the stop-loss box is ticked: no
\* bar; a dip of 0.6 % alone, or followed by a return to the initial price;
\* and, with the stop-loss check enabled, the dip followed by a rise beyond
\* every stop-loss price of the sweep.
SweepCases ==
    ({<<>>, <<166992>>, <<166992, 168000>>} \X BOOLEAN)
        \cup {<<(<<166992, 211680>>), TRUE>>}

\* Optimize is pressed, before or after a Run Strategy has stored self.df.
SweepSessions ==
    {[handler |-> "optimize_strategy", entries |-> Entries(capital, c[2]),
      market |-> Exchange(c[1]),
      self_df |-> IF stored THEN Fetched(Exchange(c[1])) ELSE NoFrame] :
        capital \in {1000, 0}, c \in SweepCases, stored \in BOOLEAN}

Sessions == RunSessions \cup SweepSessions

\* leverage_values, lower_limit_percentages, upper_limit_percentages,
\* stop_loss_percentages, grid_levels_list (lines 1060-1064)
leverage_values == <<5, 10, 15, 20>>

lower_limit_percentages == <<5, 10, 15, 20>>

upper_limit_percentages == <<5, 10, 15, 20>>

stop_loss_percentages == <<10, 15, 20, 25>>

grid_levels_list == <<20, 30, 40, 50, 60, 70, 80>>

\* The lists in the order of the for loops, outermost first.
LoopLists ==
    <<leverage_values, lower_limit_percentages, upper_limit_percentages,
      stop_loss_percentages, grid_levels_list>>

\* total_iterations (lines 1066-1068)
TotalCombinations ==
    Len(leverage_values) * Len(lower_limit_percentages) * Len(upper_limit_percentages)
        * Len(stop_loss_percentages) * Len(grid_levels_list)

\* Where the loops stand when the innermost body runs first.
FirstCombination == [d \in DOMAIN LoopLists |-> 1]

\* The loop d moves on; when it is exhausted it restarts and the loop
\* around it moves on.
RECURSIVE Advance(_, _)
Advance(at, d) ==
    IF at[d] < Len(LoopLists[d]) THEN [at EXCEPT ![d] = @ + 1]
    ELSE Advance([at EXCEPT ![d] = 1], d - 1)

\* Mutation: the outermost loop moves first.
RECURSIVE AdvanceOutermost(_, _)
AdvanceOutermost(at, d) ==
    IF at[d] < Len(LoopLists[d]) THEN [at EXCEPT ![d] = @ + 1]
    ELSE AdvanceOutermost([at EXCEPT ![d] = 1], d + 1)

NextCombinationOutermostFirst(at) == AdvanceOutermost(at, 1)

\* The next pass through the innermost body.
NextCombination(at) == Advance(at, Len(LoopLists))

\* The loop variables where the loops stand at.
LoopVars(at) ==
    [leverage |-> leverage_values[at[1]],
     lower_limit_pct |-> lower_limit_percentages[at[2]],
     upper_limit_pct |-> upper_limit_percentages[at[3]],
     stop_loss_pct |-> stop_loss_percentages[at[4]],
     grid_levels |-> grid_levels_list[at[5]]]

\* initial_price * (1 - pct / 100): a whole number for the prices and
\* percentages used here.
Below(initial_price, pct) == (initial_price * (100 - pct)) \div 100

\* initial_price * (1 + pct / 100)
Above(initial_price, pct) == (initial_price * (100 + pct)) \div 100

\* Lines 1087-1105: the arguments of the engine call for the loop
\* variables v and the entry fields e.
SweepConfig(v, e) ==
    [start_date |-> e.start_date, end_date |-> e.end_date,
     initial_price |-> e.initial_price,
     lower_limit |-> Below(e.initial_price, v.lower_limit_pct),
     upper_limit |-> Above(e.initial_price, v.upper_limit_pct),
     grid_levels |-> v.grid_levels,
     initial_capital |-> e.initial_capital, leverage |-> v.leverage,
     lower_stop_loss |-> Below(e.initial_price, v.stop_loss_pct),
     upper_stop_loss |-> Above(e.initial_price, v.stop_loss_pct),
     stop_loss_enabled |-> e.stop_loss_enabled,
     progress_callback |-> FALSE]

\* Lines 719-735: the arguments of the engine call of run_strategy.
RunConfig(e) ==
    [start_date |-> e.start_date, end_date |-> e.end_date,
     initial_price |-> e.initial_price,
     lower_limit |-> e.lower_limit, upper_limit |-> e.upper_limit,
     grid_levels |-> e.grid_levels,
     initial_capital |-> e.initial_capital, leverage |-> e.leverage,
     lower_stop_loss |-> e.lower_stop_loss, upper_stop_loss |-> e.upper_stop_loss,
     stop_loss_enabled |-> e.stop_loss_enabled,
     progress_callback |-> TRUE]

\* A total_mtm and the grid_levels its unit depends on.
Pnl(total_mtm, grid_levels) ==
    [inf |-> FALSE, value |-> total_mtm, grid_levels |-> grid_levels]

\* -float('inf')
MinusInf == [inf |-> TRUE, value |-> Zero, grid_levels |-> 1]

\* Mutation: the comparison is the wrong way round, the lower result wins.
Lower(pnl, best) ==
    best.inf \/ DLess(DMul(best.grid_levels, pnl.value), DMul(pnl.grid_levels, best.value))

\* Mutation: a result as good as the best replaces it.
NotWorse(pnl, best) ==
    best.inf \/ DLeq(DMul(pnl.grid_levels, best.value), DMul(best.grid_levels, pnl.value))

\* pnl > best_pnl
Greater(pnl, best) ==
    best.inf \/ DLess(DMul(pnl.grid_levels, best.value), DMul(best.grid_levels, pnl.value))

\* The names of one call of grid_bot_strategy.
locals ==
    <<grid_range, buy_levels, sell_levels, iteration, trade_log, total_pnl,
      total_cost, working_capital, open_positions, stop_loss_triggered,
      stop_loss_trigger_date, stop_loss_trigger_price, result>>

\* fetch_data has not been called.
NoFetch == [since |-> 0, all_ohlcv |-> <<>>, iteration |-> 0, total_iterations |-> 0]

\* Mutation: the progress of the download is not capped.
FetchProgressUncapped(n, total) == Percent(n * 100, total)

\* min(iteration / total_iterations * 100, 100)
FetchProgress(n, total) ==
    IF n * 100 >= 100 * total THEN Percent(100, 1) ELSE Percent(n * 100, total)

\* The locals of fetch_data before its loop (lines 626-635).
FetchStart(e) ==
    [since |-> e.start_date, all_ohlcv |-> <<>>, iteration |-> 0,
     total_iterations |->
         (e.end_date - e.start_date) \div (TimeframeFactor * Timeframe) + 1]

InitGui ==
    /\ pc = "idle"
    /\ cfg = None
    /\ df = <<>>
    /\ NotCalled
    /\ \E s \in Sessions :
          /\ handler = s.handler
          /\ entries = s.entries
          /\ market = s.market
          /\ self_df = s.self_df
    /\ hpc = "start"
    /\ fetch = NoFetch
    /\ frame = <<>>
    /\ progress = None
    /\ combination = None
    /\ current_iteration = 0
    /\ best_pnl = None
    /\ best_params = None
    /\ best_trade_log_df = None
    /\ previous = None
    /\ shown = <<>>
    /\ status = None
    /\ threads = <<>>
    /\ trade_log_df_default = None
    /\ default_results = None
    /\ after = <<>>
    /\ summary = None
    /\ tree = <<>>

\* run_strategy, lines 663-666, up to the loop of fetch_data.
RunStart ==
    /\ hpc = "start"
    /\ handler = "run_strategy"
    /\ status' = <<"Running Strategy...">>
    /\ progress' = Percent(0, 1)
    /\ fetch' = FetchStart(entries)
    /\ hpc' = "fetch"
    /\ UNCHANGED <<pc, cfg, df, locals, thread_vars, handler, entries, market, self_df, frame,
                   combination, current_iteration, best_pnl, best_params,
                   best_trade_log_df, previous, shown>>

\* optimize_strategy, lines 1041-1046: data is fetched only when self.df
\* does not exist yet.
OptimizeStart ==
    /\ hpc = "start"
    /\ handler = "optimize_strategy"
    /\ status' = <<"Optimizing Strategy...">>
    /\ progress' = Percent(0, 1)
    /\ IF self_df.has
       THEN hpc' = "fetched" /\ UNCHANGED fetch
       ELSE hpc' = "fetch" /\ fetch' = FetchStart(entries)
    /\ UNCHANGED <<pc, cfg, df, locals, thread_vars, handler, entries, market, self_df, frame,
                   combination, current_iteration, best_pnl, best_params,
                   best_trade_log_df, previous, shown>>

\* What fetch_ohlcv(symbol, timeframe, since=since, limit=1000) returns.
Ohlcv(since) ==
    Bind(SelectSeq(market, LAMBDA bar : bar.time >= since),
         LAMBDA bars : SubSeq(bars, 1, IF Len(bars) < FetchLimit THEN Len(bars)
                                       ELSE FetchLimit))

\* One pass of the loop of fetch_data that neither breaks nor raises
\* (lines 637-650).
FetchChunk ==
    /\ hpc = "fetch"
    /\ fetch.since < entries.end_date
    /\ \E ohlcv \in {Ohlcv(fetch.since)} :
          /\ ohlcv # <<>>
          /\ ohlcv[Len(ohlcv)].time # fetch.since
          /\ fetch' = [fetch EXCEPT !.since = ohlcv[Len(ohlcv)].time + 1,
                                    !.all_ohlcv = @ \o ohlcv,
                                    !.iteration = @ + Len(ohlcv)]
          /\ progress' = FetchProgress(fetch.iteration + Len(ohlcv),
                                       fetch.total_iterations)
    /\ UNCHANGED <<pc, cfg, df, locals, thread_vars, handler, hpc, entries, market, self_df,
                   frame, combination, current_iteration, best_pnl, best_params,
                   best_trade_log_df, previous, shown, status>>

\* The loop of fetch_data is left: since has reached the end, nothing or
\* nothing new came back, or the request raised, which can happen at any
\* pass (lines 637-652).  The bars of the date window are returned and
\* stored in self.df (lines 654-657, 666, 1046).
FetchReturn ==
    /\ hpc = "fetch"
    /\ self_df' = Fetched(FilterDates(fetch.all_ohlcv, entries.start_date,
                                      entries.end_date))
    /\ hpc' = "fetched"
    /\ UNCHANGED <<pc, cfg, df, locals, thread_vars, handler, entries, market, fetch, frame,
                   progress, combination, current_iteration, best_pnl, best_params,
                   best_trade_log_df, previous, shown, status>>

\* messagebox.showerror("Error", str(e)) for the ValueError of lines 715
\* and 1075.
NoDataError == <<"Error", "No data available for the given parameters after filtering.">>

\* messagebox.showerror("Error", str(e)) for the ZeroDivisionError of line 195.
DivisionError == <<"Error", "float division by zero">>

\* Mutation: the frame is never found empty.
NeverEmpty(df_filtered) == FALSE

\* df_filtered.empty (lines 714, 1074)
Empty(df_filtered) == df_filtered = <<>>

\* run_strategy, lines 667-736: the progress is reset, the fields are read
\* and the engine is called with the bars of the window; with no bar the
\* ValueError of line 715 is raised and handled at lines 764-766.
RunCall ==
    /\ hpc = "fetched"
    /\ handler = "run_strategy"
    /\ progress' = Percent(0, 1)
    /\ \E df_filtered \in {FilterDates(self_df.rows, entries.start_date,
                                       entries.end_date)} :
          IF Empty(df_filtered)
          THEN /\ status' = <<"Error running strategy">>
               /\ shown' = NoDataError
               /\ hpc' = "finally"
               /\ UNCHANGED <<pc, cfg, df, frame>>
          ELSE /\ frame' = df_filtered
               /\ df' = df_filtered
               /\ cfg' = RunConfig(entries)
               /\ pc' = "call"
               /\ hpc' = "engine"
               /\ UNCHANGED <<status, shown>>
    /\ UNCHANGED <<locals, thread_vars, handler, entries, market, self_df, fetch, combination,
                   current_iteration, best_pnl, best_params, best_trade_log_df,
                   previous>>

\* run_strategy, lines 738-761: the engine has returned.
RunReturn ==
    /\ hpc = "engine"
    /\ handler = "run_strategy"
    /\ pc = "done"
    /\ shown' = <<"default", result>>
    /\ status' = <<"Strategy Completed">>
    /\ hpc' = "finally"
    /\ UNCHANGED <<pc, cfg, df, locals, thread_vars, handler, entries, market, self_df, fetch,
                   frame, progress, combination, current_iteration, best_pnl,
                   best_params, best_trade_log_df, previous>>

\* run_strategy: the engine has raised a ZeroDivisionError, which
\* `except ValueError` (line 764) does not handle.
RunUncaught ==
    /\ hpc = "engine"
    /\ handler = "run_strategy"
    /\ pc = "raised"
    /\ hpc' = "finally"
    /\ UNCHANGED <<pc, cfg, df, locals, thread_vars, handler, entries, market, self_df, fetch,
                   frame, progress, combination, current_iteration, best_pnl,
                   best_params, best_trade_log_df, previous, shown, status>>

\* run_strategy, lines 767-768
RunFinally ==
    /\ hpc = "finally"
    /\ handler = "run_strategy"
    /\ progress' = Percent(100, 1)
    /\ hpc' = "end"
    /\ UNCHANGED <<pc, cfg, df, locals, thread_vars, handler, entries, market, self_df, fetch,
                   frame, combination, current_iteration, best_pnl, best_params,
                   best_trade_log_df, previous, shown, status>>

\* optimize_strategy, lines 1048-1075: the best so far is nothing, and with
\* no bar in the window the ValueError of line 1075 is raised and handled
\* at lines 1134-1136.
OptimizeSetup ==
    /\ hpc = "fetched"
    /\ handler = "optimize_strategy"
    /\ best_params' = <<>>
    /\ best_pnl' = MinusInf
    /\ best_trade_log_df' = None
    /\ current_iteration' = 0
    /\ \E df_filtered \in {FilterDates(self_df.rows, entries.start_date,
                                       entries.end_date)} :
          IF Empty(df_filtered)
          THEN /\ status' = <<"Error during optimization">>
               /\ shown' = NoDataError
               /\ hpc' = "finally"
               /\ UNCHANGED frame
          ELSE /\ frame' = df_filtered
               /\ hpc' = "loop"
               /\ UNCHANGED <<status, shown>>
    /\ UNCHANGED <<pc, cfg, df, locals, thread_vars, handler, entries, market, self_df, fetch,
                   progress, combination, previous>>

\* Mutation: the progress counts the runs that have returned.
SweepProgressOfFinished(k) == Percent(100 * (k - 1), TotalCombinations)

\* progress = (current_iteration / total_iterations) * 100  (line 1083),
\* current_iteration being k for the k-th combination: reported at line
\* 1084, before the engine is called at line 1093.
SweepProgress(k) == Percent(100 * k, TotalCombinations)

\* Lines 1077-1106: the loops move on to the next combination, the
\* progress is reported and the engine is called.
SweepNext ==
    /\ hpc = "loop"
    /\ current_iteration < TotalCombinations
    /\ current_iteration' = current_iteration + 1
    /\ progress' = SweepProgress(current_iteration')
    /\ \E at \in {IF current_iteration = 0 THEN FirstCombination
                  ELSE NextCombination(combination)} :
          /\ combination' = at
          /\ cfg' = SweepConfig(LoopVars(at), entries)
    /\ df' = frame
    /\ pc' = "call"
    /\ hpc' = "engine"
    /\ UNCHANGED <<locals, thread_vars, handler, entries, market, self_df, fetch, frame,
                   best_pnl, best_params, best_trade_log_df, previous, shown, status>>

\* Lines 1108-1124: the engine has returned; its result is kept if it is
\* the best.
SweepCompare ==
    /\ hpc = "engine"
    /\ handler = "optimize_strategy"
    /\ pc = "done"
    /\ \E pnl \in {Pnl(result.total_mtm, cfg.grid_levels)} :
          IF Greater(pnl, best_pnl)
          THEN /\ best_pnl' = pnl
               /\ best_params' =
                    [leverage |-> LoopVars(combination).leverage,
                     lower_limit_pct |-> LoopVars(combination).lower_limit_pct,
                     upper_limit_pct |-> LoopVars(combination).upper_limit_pct,
                     stop_loss_pct |-> LoopVars(combination).stop_loss_pct,
                     grid_levels |-> LoopVars(combination).grid_levels,
                     roi |-> result.roi,
                     stop_loss_triggered |-> result.stop_loss_triggered,
                     stop_loss_trigger_date |-> result.stop_loss_trigger_date,
                     stop_loss_trigger_price |-> result.stop_loss_trigger_price]
               /\ best_trade_log_df' = result.trade_log_df
          ELSE UNCHANGED <<best_pnl, best_params, best_trade_log_df>>
    /\ hpc' = "loop"
    /\ UNCHANGED <<pc, cfg, df, locals, thread_vars, handler, entries, market, self_df, fetch,
                   frame, progress, combination, current_iteration, previous, shown,
                   status>>

\* Lines 1126-1132: the loops are done and the best is shown; with
\* best_params still {} line 1132 raises a KeyError, handled at 1134-1136.
OptimizePublish ==
    /\ hpc = "loop"
    /\ current_iteration = TotalCombinations
    /\ IF DOMAIN best_params = {}
       THEN /\ status' = <<"Error during optimization">>
            /\ shown' = <<"Error", "'grid_levels'">>
       ELSE /\ status' = <<"Optimization Completed. Best Grid Levels:",
                           best_params.grid_levels>>
            /\ shown' = <<"optimized", best_params, best_pnl, best_trade_log_df>>
    /\ hpc' = "finally"
    /\ UNCHANGED <<pc, cfg, df, locals, thread_vars, handler, entries, market, self_df, fetch,
                   frame, progress, combination, current_iteration, best_pnl,
                   best_params, best_trade_log_df, previous>>

\* Lines 1134-1136: the engine has raised inside the loops; the exception
\* leaves all five of them.
OptimizeExcept ==
    /\ hpc = "engine"
    /\ handler = "optimize_strategy"
    /\ pc = "raised"
    /\ status' = <<"Error during optimization">>
    /\ shown' = DivisionError
    /\ hpc' = "finally"
    /\ UNCHANGED <<pc, cfg, df, locals, thread_vars, handler, entries, market, self_df, fetch,
                   frame, progress, combination, current_iteration, best_pnl,
                   best_params, best_trade_log_df, previous>>

\* optimize_strategy, lines 1137-1138
OptimizeFinally ==
    /\ hpc = "finally"
    /\ handler = "optimize_strategy"
    /\ progress' = Percent(100, 1)
    /\ hpc' = "end"
    /\ UNCHANGED <<pc, cfg, df, locals, thread_vars, handler, entries, market, self_df, fetch,
                   frame, combination, current_iteration, best_pnl, best_params,
                   best_trade_log_df, previous, shown, status>>

NextGui ==
    \/ RunStart \/ OptimizeStart \/ FetchChunk \/ FetchReturn
    \/ RunCall \/ RunReturn \/ RunUncaught \/ RunFinally
    \/ OptimizeSetup \/ SweepNext \/ SweepCompare \/ OptimizePublish
    \/ OptimizeExcept \/ OptimizeFinally
    \/ Setup \/ UpperStopLoss \/ LowerStopLoss \/ TradeBar \/ Finish \/ FinishRaises

SpecGui == InitGui /\ [][NextGui]_vars

\* A total_mtm in a unit that does not depend on grid_levels: 8400 is the
\* least common multiple of the grid_levels of the sweep.
InCommonUnits(p) == DMul(8400 \div p.grid_levels, p.value)

SweepCompared == hpc = "engine" /\ handler = "optimize_strategy" /\ hpc' = "loop"

\* C14: when the engine returns to the sweep, the combination replaces the
\* best so far only if its total_mtm is strictly greater (or nothing was
\* kept yet), and then with its own loop variables, ledger, ROI and
\* stop-loss record; a combination that only equals the best leaves the
\* earlier one in place, so the first of the equal maxima is the one shown.
C14_OnlyStrictlyGreaterReplacesBest ==
    [][SweepCompared =>
          IF best_pnl.inf \/ DLess(InCommonUnits(best_pnl),
                                   InCommonUnits(Pnl(result.total_mtm, cfg.grid_levels)))
          THEN /\ best_pnl' = Pnl(result.total_mtm, cfg.grid_levels)
               /\ best_trade_log_df' = result.trade_log_df
               /\ best_params'.leverage = cfg.leverage
               /\ best_params'.grid_levels = cfg.grid_levels
               /\ Below(entries.initial_price, best_params'.lower_limit_pct)
                    = cfg.lower_limit
               /\ Above(entries.initial_price, best_params'.upper_limit_pct)
                    = cfg.upper_limit
               /\ Above(entries.initial_price, best_params'.stop_loss_pct)
                    = cfg.upper_stop_loss
               /\ best_params'.roi = result.roi
               /\ best_params'.stop_loss_triggered = result.stop_loss_triggered
               /\ best_params'.stop_loss_trigger_date = result.stop_loss_trigger_date
               /\ best_params'.stop_loss_trigger_price = result.stop_loss_trigger_price
          ELSE UNCHANGED <<best_pnl, best_params, best_trade_log_df>>]_vars

\* A combination has just equalled the best, a non-zero total_mtm with a
\* stop-loss record and a ledger, and the earlier combination was kept.
C14_Witness ==
    /\ handler = "optimize_strategy"
    /\ hpc = "loop"
    /\ current_iteration > 1
    /\ pc = "done"
    /\ InCommonUnits(Pnl(result.total_mtm, cfg.grid_levels)) = InCommonUnits(best_pnl)
    /\ best_pnl.value # Zero
    /\ best_params.stop_loss_pct # LoopVars(combination).stop_loss_pct
    /\ best_params.stop_loss_triggered
    /\ best_trade_log_df = result.trade_log_df
    /\ best_trade_log_df # <<>>

\* The loop variables of the k-th pass through the innermost body, the
\* outermost loop moving slowest.
NthLoopVars(k) ==
    [leverage |-> leverage_values[((k - 1) \div 448) + 1],
     lower_limit_pct |-> lower_limit_percentages[(((k - 1) \div 112) % 4) + 1],
     upper_limit_pct |-> upper_limit_percentages[(((k - 1) \div 28) % 4) + 1],
     stop_loss_pct |-> stop_loss_percentages[(((k - 1) \div 7) % 4) + 1],
     grid_levels |-> grid_levels_list[((k - 1) % 7) + 1]]

\* The k-th engine call of a sweep is made for the k-th element of the
\* cross product, with the limits and stop-loss prices derived from it.
KthRunIsKthCombination ==
    (handler = "optimize_strategy" /\ hpc = "engine") =>
        \E v \in {NthLoopVars(current_iteration)} :
            /\ LoopVars(combination) = v
            /\ cfg.leverage = v.leverage
            /\ cfg.grid_levels = v.grid_levels
            /\ cfg.lower_limit * 100 = entries.initial_price * (100 - v.lower_limit_pct)
            /\ cfg.upper_limit * 100 = entries.initial_price * (100 + v.upper_limit_pct)
            /\ cfg.lower_stop_loss * 100 = entries.initial_price * (100 - v.stop_loss_pct)
            /\ cfg.upper_stop_loss * 100 = entries.initial_price * (100 + v.stop_loss_pct)
            /\ cfg.initial_price = entries.initial_price
            /\ cfg.initial_capital = entries.initial_capital
            /\ cfg.stop_loss_enabled = entries.stop_loss_enabled
            /\ df = frame

\* Every step of a sweep that calls the engine is the next run: no
\* combination is run twice or skipped.
OneRunPerCombination ==
    [][(handler = "optimize_strategy" /\ pc' = "call" /\ pc # "call") =>
          current_iteration' = current_iteration + 1]_vars

SweepOver == handler = "optimize_strategy" /\ hpc = "end" /\ frame # <<>>

\* C15: a sweep over a non-empty window of bars runs the engine once for
\* every element of the cross product of the five lists, 1792 runs in all,
\* leverage outermost and grid_levels innermost, each with the limits
\* initial_price * (1 -/+ pct / 100) and the stop-loss prices
\* initial_price * (1 -/+ stop_loss_pct / 100).
C15_EverySweepRunsAllCombinations ==
    /\ []KthRunIsKthCombination
    /\ OneRunPerCombination
    /\ [](SweepOver => current_iteration = 1792)

\* The same, for the sweeps in which no engine run raises: a run that
\* raises ends the sweep at that combination.
C15_SweepRunsCombinationsInOrder ==
    /\ []KthRunIsKthCombination
    /\ OneRunPerCombination
    /\ [](current_iteration <= TotalCombinations /\ TotalCombinations = 1792)
    /\ []((SweepOver /\ pc # "raised") => current_iteration = 1792)

\* A sweep over bars has made its 1792 runs.
C15_Witness ==
    /\ SweepOver
    /\ current_iteration = 1792
    /\ LoopVars(combination) =
         [leverage |-> 20, lower_limit_pct |-> 20, upper_limit_pct |-> 20,
          stop_loss_pct |-> 25, grid_levels |-> 80]

\* a <= b for two progress values.
PercentLeq(a, b) == a.num * b.den <= b.num * a.den

Reported == hpc # "start"

\* C17: the progress values of one Run Strategy or Optimize are within
\* [0, 100], the first is 0, and from then on none is lower than the one
\* before it.
C17_ProgressNeverGoesBack ==
    /\ [](Reported => (PercentLeq(Percent(0, 1), progress)
                       /\ PercentLeq(progress, Percent(100, 1))))
    /\ [][hpc = "start" => progress' = Percent(0, 1)]_vars
    /\ [][Reported => PercentLeq(progress, progress')]_vars

\* The first report after fetch_data has returned: the reset of line 667 in
\* run_strategy, the first combination in optimize_strategy.
FirstAfterFetch ==
    \/ handler = "run_strategy" /\ hpc = "fetched"
    \/ handler = "optimize_strategy" /\ hpc = "loop" /\ current_iteration = 0

\* What holds instead: the values are within [0, 100], the first is 0, the
\* last is 100, and a value is lower than the one before it only when it is
\* the first one reported after the download.
C17_ProgressRestartsAfterFetch ==
    /\ [](Reported => (PercentLeq(Percent(0, 1), progress)
                       /\ PercentLeq(progress, Percent(100, 1))))
    /\ [][hpc = "start" => progress' = Percent(0, 1)]_vars
    /\ [](hpc = "end" => progress = Percent(100, 1))
    /\ [][(Reported /\ ~FirstAfterFetch) => PercentLeq(progress, progress')]_vars

\* The first combination of a sweep is running after a download that
\* reported 100.
C17_Witness ==
    /\ handler = "optimize_strategy"
    /\ hpc = "engine"
    /\ current_iteration = 1
    /\ fetch.iteration > 0
    /\ progress = Percent(100, TotalCombinations)

\* C18: an engine run that raises during a sweep does not end the sweep:
\* the other combinations are still run and the best of those that returned
\* is shown.
C18_SweepSurvivesFailedRun ==
    SweepOver => /\ current_iteration = TotalCombinations
                 /\ status[1] = "Optimization Completed. Best Grid Levels:"

\* What the code does: the first run that raises ends the sweep; nothing
\* is shown but the error, and no later combination is run.
C18_FailedRunEndsSweep ==
    (handler = "optimize_strategy" /\ pc = "raised") =>
        /\ hpc \in {"engine", "finally", "end"}
        /\ hpc # "engine" => status = <<"Error during optimization">>

\* The sweep is over after its 29th run raised; the best of the 28 before
\* it was never shown.
C18_Witness ==
    /\ SweepOver
    /\ pc = "raised"
    /\ current_iteration = 29
    /\ DOMAIN best_params # {}
    /\ status = <<"Error during optimization">>

\* The sweep is past its check of the window and the window held no bar.
NoBarsFound ==
    /\ handler = "optimize_strategy"
    /\ hpc \in {"loop", "engine", "finally", "end"}
    /\ FilterDates(self_df.rows, entries.start_date, entries.end_date) = <<>>

\* C21: when the bars of the window are none, optimize_strategy fails with
\* the no-data error: the engine is never called, no combination is
\* counted, no best combination or ledger is kept or shown, and the error
\* is what the user is shown.
C21_NoBarsNoSweep ==
    NoBarsFound =>
        /\ hpc \in {"finally", "end"}
        /\ pc = "idle"
        /\ current_iteration = 0
        /\ DOMAIN best_params = {}
        /\ best_trade_log_df = None
        /\ best_pnl = MinusInf
        /\ shown = NoDataError
        /\ status = <<"Error during optimization">>

\* A sweep has ended on the no-data error although the exchange holds bars:
\* the download broke off before the first of them.
C21_Witness ==
    /\ NoBarsFound
    /\ hpc = "end"
    /\ market # <<>>
    /\ shown = NoDataError

\* ------------------------------------------------------------------------
\* Calls with a capital or a leverage nothing has checked
\* ------------------------------------------------------------------------

\* (initial_capital, leverage): as it should be, and with either at zero or
\* below.
Fundings == {<<1000, 1>>, <<0, 1>>, <<-1000, 1>>, <<1000, 0>>, <<1000, -1>>}

UnfundedConfigs ==
    {[Config(g, sl) EXCEPT !.initial_capital = f[1], !.leverage = f[2]] :
        g \in {<<90, 110, 2>>, <<90, 110, 4>>}, sl \in BOOLEAN, f \in Fundings}

InitUnfunded ==
    /\ pc = "call"
    /\ cfg \in UnfundedConfigs
    /\ df \in Frames
    /\ NotCalled
    /\ NoWindow("grid_bot_strategy")

NextUnfunded ==
    Setup \/ UpperStopLoss \/ LowerStopLoss \/ TradeBar \/ Finish \/ FinishRaises

SpecUnfunded == InitUnfunded /\ [][NextUnfunded]_vars

Unfunded == cfg.initial_capital <= 0 \/ cfg.leverage <= 0

\* C22: a call with initial_capital <= 0 or leverage <= 0 is rejected
\* before the simulation starts: no bar is processed, no ledger row is
\* written and nothing is returned.
C22_UnfundedCallIsRejected ==
    Unfunded => (iteration = 0 /\ trade_log = <<>> /\ pc # "done")

\* What the code does instead: the bars are processed whatever the capital
\* and the leverage; the call raises only when initial_capital is 0 and no
\* row was written, and then only at the division of line 195, once the
\* loop is over; in every other case it returns a result, with quantities
\* that are zero or negative when the working capital is.
C22_UnfundedCallRunsTheBars ==
    /\ pc = "raised" =>
          /\ cfg.initial_capital = 0
          /\ trade_log = <<>>
          /\ iteration = Len(df) \/ stop_loss_triggered
    /\ (pc = "done" /\ cfg.initial_capital = 0) => trade_log # <<>>
    /\ (Unfunded /\ pc # "call") =>
          \A n \in DOMAIN trade_log : ~DLess(Zero, trade_log[n].Quantity)

\* A call with a negative leverage has returned a ledger whose rows carry a
\* negative quantity.
C22_Witness ==
    /\ pc = "done"
    /\ cfg.leverage < 0
    /\ \E n \in DOMAIN result.trade_log_df :
          /\ DNeg(result.trade_log_df[n].Quantity)
          /\ IsTargetClose(result.trade_log_df[n])

\* The frame passed in has a bar that is older than one before it.
OutOfOrder(d) == \E i, j \in DOMAIN d : i < j /\ d[i].time > d[j].time

LevelsAsPlanned ==
    /\ grid_range * cfg.grid_levels = cfg.upper_limit - cfg.lower_limit
    /\ DOMAIN buy_levels = 1..cfg.grid_levels
    /\ DOMAIN sell_levels = 1..cfg.grid_levels
    /\ \A i \in 1..cfg.grid_levels :
          /\ buy_levels[i] = cfg.initial_price - i * grid_range
          /\ sell_levels[i] = cfg.initial_price + i * grid_range
          /\ buy_levels[i] < cfg.initial_price
          /\ sell_levels[i] > cfg.initial_price
          /\ i > 1 => (buy_levels[i] < buy_levels[i - 1]
                       /\ sell_levels[i] > sell_levels[i - 1])

\* C24: for grid_levels = N > 0 and upper_limit > lower_limit the call has
\* exactly N buy levels initial_price - i * spacing and N sell levels
\* initial_price + i * spacing, i = 1..N, spacing = (upper_limit -
\* lower_limit) / N; the buy levels fall strictly and lie below
\* initial_price, the sell levels rise strictly and lie above it; and once
\* made, spacing and levels are never changed during the run.
C24_LevelsPlannedOnceAsSpecified ==
    /\ []((pc # "call" /\ cfg.grid_levels > 0 /\ cfg.upper_limit > cfg.lower_limit)
             => LevelsAsPlanned)
    /\ [][pc # "call" => UNCHANGED <<grid_range, buy_levels, sell_levels>>]_vars

\* A call with four levels a side has opened on one bar, closed on another
\* and returned.
C24_Witness ==
    /\ pc = "done"
    /\ cfg.grid_levels = 4
    /\ iteration >= 2
    /\ \E n \in DOMAIN trade_log : IsTargetClose(trade_log[n])

\* ------------------------------------------------------------------------
\* Calls whose capital is small against the price
\* ------------------------------------------------------------------------

\* Close prices of a market quoted in the hundreds of millions.
DustPrices == {101000000, 102000000, 103000000, 104000000, 105000000}

\* The frames of such a market, oldest bar first.
DustFrames == {Stamped(ps) : ps \in SeqsUpTo(DustPrices, MaxBars)}

\* Calls on that market with a capital of 1 or of 1000 currency units:
\* positive capital, leverage and grid_levels, upper_limit > lower_limit.
DustConfigs ==
    {[Config(<<102000000, 104000000, 2>>, sl) EXCEPT
         !.initial_price = 103000000,
         !.lower_stop_loss = 101500000, !.upper_stop_loss = 104500000,
         !.initial_capital = capital] :
        sl \in BOOLEAN, capital \in {1, 1000}}

InitDust ==
    /\ pc = "call"
    /\ cfg \in DustConfigs
    /\ df \in DustFrames
    /\ NotCalled
    /\ NoWindow("grid_bot_strategy")

SpecDust == InitDust /\ [][Next]_vars

\* C25: every position ever placed in open_positions and every row of
\* trade_log has a quantity > 0, whatever the bars (positive prices) and
\* the parameters (positive initial_capital, leverage and grid_levels,
\* upper_limit > lower_limit).
C25_EveryQuantityIsPositive ==
    /\ \A n \in DOMAIN open_positions : DLess(Zero, open_positions[n].quantity)
    /\ \A n \in DOMAIN trade_log : DLess(Zero, trade_log[n].Quantity)

\* What the code keeps: round(quantity, 8) of a positive quotient is never
\* negative, and it is 0 only when working_capital / (price * grid_levels)
\* is at most half of 10^-8.
C25_QuantityIsZeroOnlyForDust ==
    /\ \A n \in DOMAIN open_positions : DLeq(Zero, open_positions[n].quantity)
    /\ \A n \in DOMAIN trade_log :
          /\ DLeq(Zero, trade_log[n].Quantity)
          /\ (IsOpening(trade_log[n]) /\ trade_log[n].Quantity = Zero)
                => 2 * cfg.initial_capital * cfg.leverage * 10 ^ QuantityDecimals
                       <= trade_log[n].Price * cfg.grid_levels

\* A call with a capital of 1 has opened a position of quantity 0, and its
\* opening row carries that quantity.
C25_Witness ==
    /\ cfg.initial_capital = 1
    /\ \E n \in DOMAIN open_positions : open_positions[n].quantity = Zero
    /\ \E n \in DOMAIN trade_log :
          IsOpening(trade_log[n]) /\ trade_log[n].Quantity = Zero

\* ------------------------------------------------------------------------
\* Calls on a frame whose 'Open time' column holds texts
\* ------------------------------------------------------------------------

\* The frame d as read from a file: each 'Open time' is a text.
AsText(d) ==
    [i \in DOMAIN d |->
        [time |-> DateTexts[d[i].time], close |-> d[i].close, dtype |-> "object"]]

TextFrames == {AsText(d) : d \in Frames}

HasText(d) == \E i \in DOMAIN d : "dtype" \in DOMAIN d[i]

InitTextDates ==
    /\ pc = "call"
    /\ cfg \in Configs
    /\ df \in TextFrames
    /\ NotCalled
    /\ NoWindow("grid_bot_strategy")

SpecTextDates == InitTextDates /\ [][Next]_vars

\* C26: a call of grid_bot_strategy has no side effect on its inputs: the
\* frame passed in is the same before and after the call.
C26_CallLeavesItsFrameAlone == [][frame' = frame]_vars

\* What the code does to the frame: its first statement rewrites the
\* 'Open time' column in place, and nothing later touches the frame; rows
\* are neither dropped nor reordered and closes are kept.
C26_CallOnlyConvertsOpenTime ==
    [][/\ frame' # frame => (pc = "call" /\ HasText(frame))
       /\ frame' = ToDatetime(frame)
       /\ Len(frame') = Len(frame)
       /\ \A i \in DOMAIN frame : frame'[i].close = frame[i].close]_vars

\* A call that was given MaxBars bars dated by texts has returned with
\* trades, and the caller's frame now holds datetimes.
C26_Witness ==
    /\ pc = "done"
    /\ Len(frame) = MaxBars
    /\ ~HasText(frame)
    /\ trade_log # <<>>

\* The sweep is inside its loops, with at least one combination begun.
Sweeping ==
    /\ handler = "optimize_strategy"
    /\ hpc \in {"loop", "engine"}
    /\ current_iteration >= 1

\* The engine runs of the sweep that have returned: all the combinations
\* begun, but for the one the engine is still working on.
Evaluated == IF hpc = "engine" THEN current_iteration - 1 ELSE current_iteration

Breaches(p) ==
    cfg.stop_loss_enabled /\ (p >= cfg.upper_stop_loss \/ p <= cfg.lower_stop_loss)

\* C28: the stop-loss check comes first on a bar and replaces the target
\* closings and the openings: the bar that breaches is the bar that
\* triggers, the rows it appends are stop-loss closings, one per open
\* position, and so every ledger row dated by the trigger bar is a
\* stop-loss closing, whatever targets or free levels its price reaches.
C28_TriggerBarWritesOnlyStopLossRows ==
    /\ [](stop_loss_triggered =>
            \A n \in DOMAIN trade_log :
                trade_log[n].Date = stop_loss_trigger_date
                    => IsStopLossClose(trade_log[n]))
    /\ [][(pc = "loop" /\ iteration' = iteration + 1 /\ Breaches(NextRow.close)) =>
            /\ stop_loss_triggered'
            /\ stop_loss_trigger_date' = NextRow.time
            /\ Len(trade_log') = Len(trade_log) + Len(open_positions)
            /\ \A n \in (Len(trade_log) + 1)..Len(trade_log') :
                   IsStopLossClose(trade_log'[n])]_vars

\* The upper stop-loss closed a long at a price that is past the long's
\* target and past a sell level no position holds: without the stop-loss
\* the bar would have closed the long at its target and opened a short.
C28_Witness ==
    /\ stop_loss_triggered
    /\ \E n \in DOMAIN trade_log :
          /\ trade_log[n].BS = "Sell (SL Closing)"
          /\ trade_log[n].Date = stop_loss_trigger_date
          /\ trade_log[n].Price >= trade_log[n].Entry_Level + grid_range
    /\ \E i \in DOMAIN sell_levels : stop_loss_trigger_price >= sell_levels[i]

\* The bars of the frame passed in that lie within the date window, and
\* those of them whose close breaches an armed stop-loss.
BarsInWindow == {i \in DOMAIN frame : frame[i].time \in cfg.start_date..cfg.end_date}

BreachingBars == {i \in BarsInWindow : Breaches(frame[i].close)}

\* The earliest of the breaching bars.
FirstBreach ==
    CHOOSE i \in BreachingBars : \A j \in BreachingBars : frame[i].time <= frame[j].time

\* C29: the returned stop-loss record is triggered exactly when the
\* stop-loss is enabled and some bar closes at or above upper_stop_loss or at
\* or below lower_stop_loss; its date and price are those of the
\* chronologically first such bar, the last bar processed; with the
\* stop-loss disabled, or no such bar, every bar is processed and the record
\* is (False, None, None).
C29_StopLossRecordIsFirstBreach ==
    pc = "done" =>
        IF BreachingBars # {}
        THEN /\ result.stop_loss_triggered
             /\ result.stop_loss_trigger_date = frame[FirstBreach].time
             /\ result.stop_loss_trigger_price = frame[FirstBreach].close
             /\ iteration = Cardinality({i \in BarsInWindow :
                                            frame[i].time <= frame[FirstBreach].time})
        ELSE /\ ~result.stop_loss_triggered
             /\ result.stop_loss_trigger_date = None
             /\ result.stop_loss_trigger_price = None
             /\ iteration = Cardinality(BarsInWindow)

\* A call on a frame given newest first, with two breaching bars after a
\* quiet one, has returned the record of the earlier breach.
C29_Witness ==
    /\ pc = "done"
    /\ OutOfOrder(frame)
    /\ Cardinality(BreachingBars) = 2
    /\ iteration = 2
    /\ result.stop_loss_triggered
    /\ result.stop_loss_trigger_date = 2

\* A call with the stop-loss disabled has read, to the last one, bars that
\* close beyond both stop-loss prices.
C29_WitnessDisabled ==
    /\ pc = "done"
    /\ ~cfg.stop_loss_enabled
    /\ iteration = MaxBars
    /\ \E i, j \in DOMAIN frame : /\ frame[i].close >= cfg.upper_stop_loss
                                  /\ frame[j].close <= cfg.lower_stop_loss

Longs == {n \in DOMAIN open_positions : open_positions[n].type = "Buy"}

Shorts == {n \in DOMAIN open_positions : open_positions[n].type = "Sell"}

\* C30: with upper_limit > lower_limit and grid_levels > 0, after every bar
\* that was processed in full (no stop-loss) with close p, the open positions
\* are on one side: no short if p < initial_price, no long if
\* p > initial_price, none at all if p = initial_price; longs and shorts are
\* never open together between bars.
C30_OpenPositionsAreOneSided ==
    (cfg.upper_limit > cfg.lower_limit /\ cfg.grid_levels > 0) =>
        /\ Longs = {} \/ Shorts = {}
        /\ (iteration >= 1 /\ ~stop_loss_triggered) =>
              /\ LastRow.close < cfg.initial_price => Shorts = {}
              /\ LastRow.close > cfg.initial_price => Longs = {}
              /\ LastRow.close = cfg.initial_price => open_positions = <<>>

\* The book changed sides on one bar: the bar closed above initial_price,
\* closed the longs of an earlier bar at their targets and opened shorts.
C30_Witness ==
    /\ pc = "loop"
    /\ iteration >= 2
    /\ LastRow.close > cfg.initial_price
    /\ Shorts # {}
    /\ \E n \in DOMAIN trade_log :
          trade_log[n].BS = "Sell (Closing)" /\ trade_log[n].Date = LastRow.time

\* A bar closing at initial_price has closed every position and opened none.
C30_WitnessAtInitialPrice ==
    /\ pc = "loop"
    /\ iteration >= 2
    /\ LastRow.close = cfg.initial_price
    /\ open_positions = <<>>
    /\ \E n \in DOMAIN trade_log :
          IsTargetClose(trade_log[n]) /\ trade_log[n].Date = LastRow.time

\* The PnL a target closing realized, from the columns of its row:
\* (price - entry level) * quantity for a long closed by 'Sell (Closing)',
\* (entry level - price) * quantity for a short closed by 'Buy (Closing)',
\* whose entry level is in the column Target_Level.
RealizedAtTarget(row) ==
    IF row.BS = "Sell (Closing)"
    THEN DMul(row.Price - row.Entry_Level, row.Quantity)
    ELSE DMul(row.Target_Level - row.Price, row.Quantity)

\* C31: with upper_limit > lower_limit, grid_levels > 0 and positive
\* capital, leverage and prices, every closing at a target (a '(Closing)'
\* row) realizes a PnL > 0, and working_capital never falls while the loop
\* is running without a stop-loss.
C31_TargetClosesGain ==
    /\ [](\A n \in DOMAIN trade_log :
             IsTargetClose(trade_log[n]) => DLess(Zero, RealizedAtTarget(trade_log[n])))
    /\ [][(pc = "loop" /\ ~stop_loss_triggered')
             => DLeq(working_capital, working_capital')]_vars

\* What the code keeps: a closing at a target never loses, it gains unless
\* the position has the quantity 0, and working_capital never falls while
\* the loop is running without a stop-loss.
C31_TargetClosesNeverLose ==
    /\ [](\A n \in DOMAIN trade_log :
             IsTargetClose(trade_log[n]) =>
                 /\ DLeq(Zero, RealizedAtTarget(trade_log[n]))
                 /\ RealizedAtTarget(trade_log[n]) = Zero
                        <=> trade_log[n].Quantity = Zero)
    /\ [][(pc = "loop" /\ ~stop_loss_triggered')
             => DLeq(working_capital, working_capital')]_vars

\* A call with a capital of 1 has closed a long of quantity 0 above its
\* target: the closing realized a PnL of 0.
C31_Witness ==
    /\ cfg.initial_capital = 1
    /\ \E n \in DOMAIN trade_log :
          /\ trade_log[n].BS = "Sell (Closing)"
          /\ trade_log[n].Price > trade_log[n].Target_Level
          /\ RealizedAtTarget(trade_log[n]) = Zero

Openings(log) == Cardinality({n \in DOMAIN log : IsOpening(log[n])})

Closings(log) ==
    Cardinality({n \in DOMAIN log : IsTargetClose(log[n]) \/ IsStopLossClose(log[n])})

\* C32: after any sequence of bars the opening rows of the ledger are as
\* many as its closing rows (at a target or by the stop-loss) and the open
\* positions together, every row is one or the other, and the
\* open-trades count returned is the number of positions left open.
C32_PositionsAreConserved ==
    /\ Openings(trade_log) = Closings(trade_log) + Len(open_positions)
    /\ Openings(trade_log) + Closings(trade_log) = Len(trade_log)
    /\ pc = "done" =>
          /\ result.open_trades = Len(open_positions)
          /\ Openings(result.trade_log_df)
                = Closings(result.trade_log_df) + result.open_trades

\* A call that read three bars has returned a ledger with openings,
\* closings at a target and closings by the stop-loss.
C32_Witness ==
    /\ pc = "done"
    /\ iteration = 3
    /\ \E n \in DOMAIN trade_log : IsTargetClose(trade_log[n])
    /\ \E n \in DOMAIN trade_log : IsStopLossClose(trade_log[n])
    /\ Openings(trade_log) >= 3

\* A call has returned with positions still open after a closing at a target.
C32_WitnessLeftOpen ==
    /\ pc = "done"
    /\ result.open_trades >= 1
    /\ \E n \in DOMAIN trade_log : IsTargetClose(trade_log[n])

\* The open longs, or shorts, whose entry level is `level`.
LongsAt(level) == {n \in Longs : open_positions[n].price = level}

ShortsAt(level) == {n \in Shorts : open_positions[n].price = level}

\* C33: after every bar processed in full (no stop-loss) with close
\* p < initial_price, each buy level >= p holds exactly one open long;
\* after one with close p > initial_price, each sell level <= p holds
\* exactly one open short.
C33_ReachedLevelsAreCovered ==
    (iteration >= 1 /\ ~stop_loss_triggered) =>
        /\ LastRow.close < cfg.initial_price =>
              \A i \in DOMAIN buy_levels :
                  buy_levels[i] >= LastRow.close
                      => Cardinality(LongsAt(buy_levels[i])) = 1
        /\ LastRow.close > cfg.initial_price =>
              \A i \in DOMAIN sell_levels :
                  sell_levels[i] <= LastRow.close
                      => Cardinality(ShortsAt(sell_levels[i])) = 1

\* A bar closed below two buy levels, one already held by a long of an
\* earlier bar and one free: both now hold one long each.
C33_Witness ==
    /\ pc = "loop"
    /\ iteration >= 2
    /\ LastRow.close < cfg.initial_price
    /\ Cardinality({i \in DOMAIN buy_levels : buy_levels[i] >= LastRow.close}) >= 2
    /\ \E n, m \in DOMAIN trade_log :
          /\ trade_log[n].BS = "Buy (Opening)"
          /\ trade_log[m].BS = "Buy (Opening)"
          /\ trade_log[n].Date < trade_log[m].Date
          /\ trade_log[m].Date = LastRow.time
          /\ LongsAt(trade_log[n].Entry_Level) # {}

\* a <= b for two total_mtm values of the sweep, -inf being below all.
PnlLeq(a, b) ==
    a.inf \/ (~b.inf /\ DLeq(InCommonUnits(a), InCommonUnits(b)))

\* The sweep has run all its combinations over a window with bars and no
\* engine run has raised.
SweepCompleted == SweepOver /\ pc = "done" /\ current_iteration = TotalCombinations

\* C34: a sweep over bars that completes without an engine failure always
\* reports a best combination, and the total_mtm reported is at least that
\* of every combination run: the first run replaces the -inf the sweep
\* starts from, each run leaves a best that is no lower than its own result
\* and no lower than the best before it, and what is shown at the end is
\* the best kept.
C34_BestIsReportedAndIsMaximal ==
    /\ [][SweepCompared =>
             /\ ~best_pnl'.inf
             /\ DOMAIN best_params' # {}
             /\ PnlLeq(Pnl(result.total_mtm, cfg.grid_levels), best_pnl')
             /\ PnlLeq(best_pnl, best_pnl')]_vars
    /\ [][(handler = "optimize_strategy" /\ ~SweepCompared
               /\ hpc \in {"loop", "engine", "finally"})
             => UNCHANGED <<best_pnl, best_params, best_trade_log_df>>]_vars
    /\ []((handler = "optimize_strategy" /\ hpc = "loop" /\ current_iteration >= 1)
             => PnlLeq(Pnl(result.total_mtm, cfg.grid_levels), best_pnl))
    /\ [](SweepCompleted =>
             /\ shown = <<"optimized", best_params, best_pnl, best_trade_log_df>>
             /\ status = <<"Optimization Completed. Best Grid Levels:",
                           best_params.grid_levels>>)

\* A completed sweep shows a best that is neither its first combination nor
\* its last, and that is strictly better than the result of the last.
C34_Witness ==
    /\ SweepCompleted
    /\ shown[1] = "optimized"
    /\ shown[2].leverage # leverage_values[1]
    /\ shown[2].grid_levels # cfg.grid_levels
    /\ ~PnlLeq(shown[3], Pnl(result.total_mtm, cfg.grid_levels))

\* ------------------------------------------------------------------------
\* The worker threads of Run Strategy  (lines 659-768)
\* ------------------------------------------------------------------------

\* The clicks on Run Strategy.
MaxThreads == 2

\* The exchange the threads download from: no bar; a dip of 0.6 % followed
\* by a return to the initial price; one bar below the lower or above the
\* upper stop-loss price.
ThreadMarkets ==
    {Exchange(<<>>), Exchange(<<166992, 168000>>), Exchange(<<150000>>),
     Exchange(<<186000>>)}

\* The window is open, its fields are filled in and nothing has been
\* clicked.
InitThreads ==
    /\ pc = "idle"
    /\ cfg = None
    /\ df = <<>>
    /\ NotCalled
    /\ handler = "run_strategy_thread"
    /\ hpc = "threads"
    /\ entries = Entries(1000, TRUE)
    /\ market \in ThreadMarkets
    /\ self_df = NoFrame
    /\ fetch = NoFetch
    /\ frame = <<>>
    /\ progress = None
    /\ combination = None
    /\ current_iteration = 0
    /\ best_pnl = None
    /\ best_params = None
    /\ best_trade_log_df = None
    /\ previous = None
    /\ shown = <<>>
    /\ status = None
    /\ threads = <<>>
    /\ trade_log_df_default = None
    /\ default_results = None
    /\ after = <<>>
    /\ summary = <<>>
    /\ tree = <<>>

\* run_strategy_thread (lines 659-660): a click starts a thread on
\* run_strategy, whatever the earlier threads are doing.
Click ==
    /\ handler = "run_strategy_thread"
    /\ Len(threads) < MaxThreads
    /\ threads' = Append(threads, [at |-> "start", ran |-> FALSE,
                                   returned |-> None, rows |-> <<>>])
    /\ UNCHANGED <<pc, cfg, df, locals, progress, handler, hpc, entries, market,
                   self_df, fetch, frame, combination, current_iteration, best_pnl,
                   best_params, best_trade_log_df, previous, shown, status,
                   trade_log_df_default, default_results, after, summary, tree>>

\* The user moves the end date (self.end_date, read at lines 627, 714 and
\* 721) back to the day of the first bar.
UserEdits ==
    /\ handler = "run_strategy_thread"
    /\ entries.end_date > Timeframe
    /\ entries' = [entries EXCEPT !.end_date = Timeframe]
    /\ UNCHANGED <<pc, cfg, df, locals, progress, handler, hpc, market,
                   self_df, fetch, frame, combination, current_iteration, best_pnl,
                   best_params, best_trade_log_df, previous, shown, status,
                   thread_vars>>

\* Lines 663-667 in a thread t: the status, the download, self.df and the
\* progress back at 0.  The passes of fetch_data touch only its locals and
\* are taken in one step.
ThreadStart ==
    \E t \in DOMAIN threads :
        /\ threads[t].at = "start"
        /\ status' = <<"Running Strategy...">>
        /\ self_df' = Fetched(FilterDates(market, entries.start_date, entries.end_date))
        /\ progress' = Percent(0, 1)
        /\ threads' = [threads EXCEPT ![t].at = "fetched"]
        /\ UNCHANGED <<pc, cfg, df, locals, handler, hpc, entries, market,
                       fetch, frame, combination, current_iteration, best_pnl,
                       best_params, best_trade_log_df, previous, shown,
                       trade_log_df_default, default_results, after, summary, tree>>

\* Lines 669-735 in thread t: the fields are read, self.df is cut to the
\* window and the engine is called; with no bar the ValueError of line 715
\* is raised and handled at lines 764-766.  The engine works on locals
\* only, so the calls of two threads are taken one after the other.
ThreadCall ==
    \E t \in DOMAIN threads :
        /\ threads[t].at = "fetched"
        /\ \E df_filtered \in {FilterDates(self_df.rows, entries.start_date,
                                           entries.end_date)} :
              IF Empty(df_filtered)
              THEN /\ status' = <<"Error running strategy">>
                   /\ shown' = NoDataError
                   /\ threads' = [threads EXCEPT ![t].at = "finally"]
                   /\ UNCHANGED <<pc, cfg, df, frame>>
              ELSE /\ pc \in {"idle"}
                   /\ frame' = df_filtered
                   /\ df' = df_filtered
                   /\ cfg' = RunConfig(entries)
                   /\ pc' = "call"
                   /\ threads' = [threads EXCEPT ![t].at = "engine"]
                   /\ UNCHANGED <<status, shown>>
        /\ UNCHANGED <<locals, progress, handler, hpc, entries, market, self_df,
                       fetch, combination, current_iteration, best_pnl,
                       best_params, best_trade_log_df, previous,
                       trade_log_df_default, default_results, after, summary, tree>>

\* Lines 718-719 in thread t: the tuple the engine returned is unpacked, its
\* ledger into self.trade_log_df_default and the rest into locals.
ThreadReturn ==
    \E t \in DOMAIN threads :
        /\ threads[t].at = "engine"
        /\ pc = "done"
        /\ trade_log_df_default' = result.trade_log_df
        /\ threads' = [threads EXCEPT ![t].at = "returned", ![t].ran = TRUE,
                                      ![t].returned = result]
        /\ pc' = "idle"
        /\ UNCHANGED <<cfg, df, locals, progress, handler, hpc, entries, market,
                       self_df, fetch, frame, combination, current_iteration, best_pnl,
                       best_params, best_trade_log_df, previous, shown, status,
                       default_results, after, summary, tree>>

\* Lines 738-754 in thread t: self.default_results is filled, its ledger
\* being read from self.trade_log_df_default, and the lambda that will write
\* the summary is handed to root.after.
ThreadSchedule ==
    \E t \in DOMAIN threads :
        /\ threads[t].at = "returned"
        /\ default_results' =
             [total_current_pnl |-> threads[t].returned.total_pnl,
              mtm_value |-> threads[t].returned.mtm_value,
              total_mtm |-> threads[t].returned.total_mtm,
              total_cost |-> threads[t].returned.total_cost,
              roi |-> threads[t].returned.roi,
              open_trades |-> threads[t].returned.open_trades,
              stop_loss_triggered |-> threads[t].returned.stop_loss_triggered,
              stop_loss_trigger_date |-> threads[t].returned.stop_loss_trigger_date,
              stop_loss_trigger_price |-> threads[t].returned.stop_loss_trigger_price,
              trade_log_df |-> trade_log_df_default]
        /\ after' = Append(after, t)
        /\ threads' = [threads EXCEPT ![t].at = "scheduled"]
        /\ UNCHANGED <<pc, cfg, df, locals, progress, handler, hpc, entries, market,
                       self_df, fetch, frame, combination, current_iteration, best_pnl,
                       best_params, best_trade_log_df, previous, shown, status,
                       trade_log_df_default, summary, tree>>

\* The main loop runs the oldest lambda of lines 751-754, which calls
\* update_summary_labels_for_run (lines 873-893): the locals are those of
\* the thread that made the lambda, len(self.trade_log_df_default) is taken
\* now.
MainAfter ==
    /\ after # <<>>
    /\ summary' =
         <<[total_pnl |-> threads[Head(after)].returned.total_pnl,
            mtm_value |-> threads[Head(after)].returned.mtm_value,
            total_trades |-> Len(trade_log_df_default),
            open_trades |-> threads[Head(after)].returned.open_trades,
            total_cost |-> threads[Head(after)].returned.total_cost,
            net_pnl |-> threads[Head(after)].returned.total_mtm,
            roi |-> threads[Head(after)].returned.roi,
            stop_loss_triggered |-> threads[Head(after)].returned.stop_loss_triggered,
            sl_date |-> threads[Head(after)].returned.stop_loss_trigger_date,
            sl_price |-> threads[Head(after)].returned.stop_loss_trigger_price]>>
    /\ after' = Tail(after)
    /\ UNCHANGED <<pc, cfg, df, locals, progress, handler, hpc, entries, market,
                   self_df, fetch, frame, combination, current_iteration, best_pnl,
                   best_params, best_trade_log_df, previous, shown, status,
                   threads, trade_log_df_default, default_results, tree>>

\* Lines 757-760 in thread t: the table is emptied and the loop over the
\* rows of self.trade_log_df_default, as it is now, begins.
ThreadClear ==
    \E t \in DOMAIN threads :
        /\ threads[t].at = "scheduled"
        /\ tree' = <<>>
        /\ threads' = [threads EXCEPT ![t].at = "insert", ![t].rows = trade_log_df_default]
        /\ UNCHANGED <<pc, cfg, df, locals, progress, handler, hpc, entries, market,
                       self_df, fetch, frame, combination, current_iteration, best_pnl,
                       best_params, best_trade_log_df, previous, shown, status,
                       trade_log_df_default, default_results, after, summary>>

\* Line 761 in thread t: one row is put at the end of the table.
ThreadInsert ==
    \E t \in DOMAIN threads :
        /\ threads[t].at = "insert"
        /\ threads[t].rows # <<>>
        /\ tree' = Append(tree, Head(threads[t].rows))
        /\ threads' = [threads EXCEPT ![t].rows = Tail(@)]
        /\ UNCHANGED <<pc, cfg, df, locals, progress, handler, hpc, entries, market,
                       self_df, fetch, frame, combination, current_iteration, best_pnl,
                       best_params, best_trade_log_df, previous, shown, status,
                       trade_log_df_default, default_results, after, summary>>

\* Lines 763-768 in thread t: the status of a run that got through, and the
\* progress at 100 whether it did or not.
ThreadEnd ==
    \E t \in DOMAIN threads :
        /\ \/ threads[t].at = "insert" /\ threads[t].rows = <<>>
                                       /\ status' = <<"Strategy Completed">>
           \/ threads[t].at = "finally" /\ UNCHANGED status
        /\ progress' = Percent(100, 1)
        /\ threads' = [threads EXCEPT ![t].at = "end"]
        /\ UNCHANGED <<pc, cfg, df, locals, handler, hpc, entries, market,
                       self_df, fetch, frame, combination, current_iteration, best_pnl,
                       best_params, best_trade_log_df, previous, shown,
                       trade_log_df_default, default_results, after, summary, tree>>

NextThreads ==
    \/ Click \/ UserEdits \/ MainAfter
    \/ ThreadStart \/ ThreadCall \/ ThreadReturn \/ ThreadSchedule
    \/ ThreadClear \/ ThreadInsert \/ ThreadEnd
    \/ Setup \/ UpperStopLoss \/ LowerStopLoss \/ TradeBar \/ Finish

SpecThreads == InitThreads /\ [][NextThreads]_vars

\* The engine runs whose results a thread holds.
Ran == {t \in DOMAIN threads : threads[t].ran}

\* Every click was made, every thread is through and no lambda is waiting.
Quiet ==
    /\ Len(threads) = MaxThreads
    /\ \A t \in DOMAIN threads : threads[t].at = "end"
    /\ after = <<>>

\* The summary shows the results of the engine run of thread t.
SummaryOf(t) ==
    /\ summary[1].total_trades = Len(threads[t].returned.trade_log_df)
    /\ summary[1].total_pnl = threads[t].returned.total_pnl
    /\ summary[1].total_cost = threads[t].returned.total_cost
    /\ summary[1].roi = threads[t].returned.roi
    /\ summary[1].open_trades = threads[t].returned.open_trades

\* C35: however the worker threads of repeated clicks interleave, the
\* default summary is of one engine run: the number of trades shown belongs
\* to the run whose PnL, cost and ROI are shown, and once the threads are
\* through the table holds the ledger of that run.
C35_SummaryIsOfOneRun ==
    summary # <<>> =>
        \E t \in Ran :
            /\ SummaryOf(t)
            /\ Quiet => tree = threads[t].returned.trade_log_df

\* What the code keeps: PnL, cost, ROI and open trades are those of one run,
\* the locals of the thread whose lambda ran last; the number of trades is
\* the length of the ledger of some run, not always the same one.
C35_SummaryMixesTwoRuns ==
    summary # <<>> =>
        /\ \E t \in Ran :
              /\ summary[1].total_pnl = threads[t].returned.total_pnl
              /\ summary[1].total_cost = threads[t].returned.total_cost
              /\ summary[1].roi = threads[t].returned.roi
              /\ summary[1].open_trades = threads[t].returned.open_trades
        /\ \E t \in Ran :
              summary[1].total_trades = Len(threads[t].returned.trade_log_df)

\* Two threads are through, nothing is waiting, and the summary shows the
\* PnL and the open trades of one run with the number of trades of the
\* other.
C35_Witness ==
    /\ Quiet
    /\ summary # <<>>
    /\ Cardinality(Ran) = 2
    /\ \A t \in Ran : ~SummaryOf(t)

====
